---- MODULE Spec2Model ----
(***************************************************************************)
(* smokeshow: the suite / test-case lifecycle (browser.py, test_case.py)   *)
(* and the redaction policy (sensitive.py) as a state machine.             *)
(*                                                                         *)
(* A span is a record of the span store `spans`; a test case is a record   *)
(* of `cases`, created by the suite's factory.  Every handler of the code  *)
(* (__aenter__, __aexit__, test_case, _record_result, the actions) is      *)
(* translated statement by statement.  A handler that awaits is one action *)
(* up to its first await and one action per resumption, so that whatever   *)
(* the event loop runs in between sees the state the handler left.         *)
(***************************************************************************)
EXTENDS Integers, Sequences, FiniteSets, TLC

VARIABLES
    suite_span,   \* InstrumentedBrowser._suite_span: index in spans, 0 = None
    page,         \* InstrumentedBrowser._page: id of the page, 0 = None
    total,        \* InstrumentedBrowser._total
    passed,       \* InstrumentedBrowser._passed
    failed,       \* InstrumentedBrowser._failed
    spans,        \* every span started so far, in start order
    cases,        \* every TestCase the factory returned, in creation order
    url,          \* page.url of each page the driver opened
    calls,        \* the suite scope: entries and exits that completed, exc_val
                  \* of the last exit,
                  \* what left the scope, the effects of its exits in order
    pending,      \* the failure travelling through the suite body, if any
    logs,         \* the records handed to the 'smokeshow.test_results' logger
    redaction,    \* one call of redact_if_needed: its arguments and result
    acts,         \* every call of an instrumented action, in call order
    config,       \* one construction of SmokeshowConfig: arguments, environment
                  \* and the fields after __post_init__
    process,      \* what outlives an InstrumentedBrowser in its process: the
                  \* global tracer provider, the handlers of the shared logger,
                  \* and what the providers exported so far
    suspended     \* the coroutines that wait at an `await`: the call the
                  \* suite's __aenter__ or __aexit__ waits for, and the calls
                  \* of instrumented actions that wait for the driver

vars == <<suite_span, page, total, passed, failed, spans, cases, url, calls,
          pending, logs, redaction, acts, config, process, suspended>>

(***************************************************************************)
(* Bounds of the model.                                                    *)
(***************************************************************************)
\* test cases the factory is asked for
MaxCases == 2
\* calls of the factory and of __aenter__/__aexit__ (suite and test cases) in one run
MaxCalls == 8
\* chunks a selector is concatenated from
MaxParts == 2

(***************************************************************************)
(* Failures.  A failure is an object with an identity, a message           *)
(* (str(exc_val)) and the name of its type; NoExc stands for None.         *)
(***************************************************************************)
NoExc == [id |-> 0, msg |-> "None", type |-> "NoneType"]

\* what a body can raise: RuntimeError("boom"), and a bare `assert False`,
\* whose str() is empty
Failures == {[id |-> 1, msg |-> "boom", type |-> "RuntimeError"],
             [id |-> 2, msg |-> "", type |-> "AssertionError"]}

\* what a collaborator raises when an exit step fails
ExitError == [id |-> 3, msg |-> "exit step failed", type |-> "RuntimeError"]

\* the exit steps of TestCase.__aexit__ that call a collaborator
ExitFaults == {"none", "url", "report", "log"}

Urls == {"http://localhost:8080/", "http://localhost:8080/fail"}

\* the test cases the caller asks for, in this order
CaseInputs == <<[name |-> "login", case_id |-> "TC-001",
                 tags |-> "smoke,auth", description |-> "Test user login"],
                [name |-> "logout", case_id |-> "",
                 tags |-> "", description |-> ""]>>

(***************************************************************************)
(* The span primitives of the telemetry SDK, as the code uses them.  An    *)
(* ended span drops every later write; end() is counted per call.          *)
(***************************************************************************)
NoAttrs == [k \in {} |-> ""]

Put(f, k, v) == [x \in DOMAIN f \cup {k} |-> IF x = k THEN v ELSE f[x]]

\* dict.update
Update(f, g) ==
    [x \in DOMAIN f \cup DOMAIN g |-> IF x \in DOMAIN g THEN g[x] ELSE f[x]]

start_span(kind, parent, attrs) ==
    [kind |-> kind, parent |-> parent, attrs |-> attrs, status |-> "UNSET",
     description |-> "", exception |-> NoExc, ends |-> 0]

set_attribute(s, k, v) ==
    IF s.ends > 0 THEN s ELSE [s EXCEPT !.attrs = Put(s.attrs, k, v)]

set_status(s, code, desc) ==
    IF s.ends > 0 \/ s.status = "OK" THEN s
    ELSE [s EXCEPT !.status = code,
                   !.description = IF code = "ERROR" THEN desc ELSE ""]

record_exception(s, e) ==
    IF s.ends > 0 THEN s ELSE [s EXCEPT !.exception = e]

end(s) == [s EXCEPT !.ends = s.ends + 1]

(***************************************************************************)
(* The `async with` protocol: a failure of the body leaves the scope       *)
(* unless __aexit__ returns a true value; a failure raised inside          *)
(* __aexit__ replaces it.                                                  *)
(***************************************************************************)
Propagate(exc_val, ret, raised) ==
    IF raised # NoExc THEN raised
    ELSE IF exc_val # NoExc /\ ~ret THEN exc_val
    ELSE NoExc

NoPending == [exc |-> NoExc, from |-> 0]

(***************************************************************************)
(* InstrumentedBrowser                                                     *)
(***************************************************************************)
\* enters counts the calls of __aenter__ that returned, exits the calls of
\* __aexit__ that returned or raised
NoCalls == [enters |-> 0, exits |-> 0, early |-> 0, exc_val |-> NoExc,
            from |-> 0, escaped |-> NoExc, effects |-> <<>>]

\* no coroutine waits: suite names the awaited call of the suite's
\* __aenter__ or __aexit__ ("" for none), actions holds one record per call
\* of an instrumented action that waits for the driver, blocks one record
\* per `with test.action_span(...)` block whose body is running
NoSuspended == [suite |-> "", actions |-> {}, blocks |-> {}]

Quiet == suspended = NoSuspended

\* InstrumentedBrowser._record_result
record_result_fail(is_passed) ==
    /\ passed' = passed
    /\ failed' = failed + 1

record_result_both(is_passed) ==
    /\ passed' = passed + 1
    /\ failed' = failed + 1

record_result(is_passed) ==
    IF is_passed
    THEN passed' = passed + 1 /\ failed' = failed
    ELSE failed' = failed + 1 /\ passed' = passed

\* the result classification of InstrumentedBrowser.__aexit__
SuiteResult_NoPartial(p, f) == IF f = 0 THEN "passed" ELSE "failed"

SuiteResult(p, f) ==
    IF f = 0 THEN "passed"
    ELSE IF p = 0 THEN "failed"
    ELSE "partial"

RECURSIVE CaseCalls(_)
CaseCalls(n) ==
    IF n = 0 THEN 0 ELSE cases[n].enters + cases[n].exits + CaseCalls(n - 1)

\* the calls made so far
ScopeCalls == calls.enters + calls.exits + total + CaseCalls(Len(cases))

\* the process before the first suite is entered.  The instance variables
\* belong to the InstrumentedBrowser number `instance`; own is its
\* self._provider and tracer the provider of its self._tracer (0: None).
\* Tracer providers are numbered in the order __aenter__ makes them, and the
\* log provider made by the same call has the same number.  provider is the
\* global tracer provider, bound[n] the provider of the tracer the n-th
\* __aenter__ got, roots[n] its root span, handlers the log providers of the
\* handlers on the shared logger, via[k] the provider whose span processor
\* received span k, flushed the spans exported so far.
NoProcess == [instance |-> 1, provider |-> 0, own |-> 0, tracer |-> 0,
              bound |-> <<>>, roots |-> <<>>, handlers |-> <<>>,
              emitted |-> <<>>, flushed |-> {}, via |-> <<>>]

\* trace.set_tracer_provider(provider): the global tracer provider is set
\* once per process, a later call leaves it as it is
set_tracer_provider(current, provider) ==
    IF current = 0 THEN provider ELSE current

\* self._tracer of the instance: trace.get_tracer(...) hands out a tracer of
\* the global provider
Tracer == process.tracer

\* the provider whose span processor received span k: that of the tracer
\* the span was started with
ProviderOf(k) == process.via[k]

\* InstrumentedBrowser(config): a further instance in the same process, with
\* counters at zero and no provider, tracer, span or page of its own yet
Browser_init ==
    /\ pending = NoPending
    /\ suspended.suite = ""
    /\ suite_span' = 0
    /\ page' = 0
    /\ total' = 0
    /\ passed' = 0
    /\ failed' = 0
    /\ calls' = NoCalls
    /\ process' = [process EXCEPT !.instance = @ + 1, !.own = 0, !.tracer = 0]
    /\ UNCHANGED <<spans, cases, url, pending, logs, redaction, acts, config,
                   suspended>>

\* self._config of InstrumentedBrowser(suite_name="smoke") in an environment
\* that sets none of the PLAYWRIGHT_OTEL_* variables
SuiteConfig == [suite_name |-> "smoke", base_url |-> "",
                environment |-> "development", trigger |-> "manual",
                browser_type |-> "chromium", headless |-> TRUE,
                viewport_width |-> 1280, viewport_height |-> 720]

\* str(uuid.uuid4()) of the n-th __aenter__ of the process: a fresh string
SuiteId(n) == "00000000-0000-4000-8000-00000000000" \o ToString(n)

\* datetime.now(timezone.utc).isoformat(): the model has no clock, every
\* suite starts at this instant
RunTimestamp == "2026-01-01T00:00:00+00:00"

\* the outcome of one `git rev-parse`: its stripped output, or a failure
NoGit == [ok |-> FALSE, out |-> ""]

\* spans.get_git_info(): each of the two keys is present when its command
\* returned
get_git_info(head, branch) ==
    LET sha == IF head.ok THEN Put(NoAttrs, "vcs.commit.sha", head.out)
               ELSE NoAttrs
    IN  IF branch.ok THEN Put(sha, "vcs.branch", branch.out) ELSE sha

\* suite_attrs of InstrumentedBrowser.__aenter__
SuiteAttrs(cfg, suite_id, timestamp, git_info) ==
    Update(("test.suite.name" :> cfg.suite_name)
           @@ ("test.suite.id" :> suite_id)
           @@ ("test.run.trigger" :> cfg.trigger)
           @@ ("test.run.timestamp" :> timestamp)
           @@ ("test.target.base_url" :> cfg.base_url)
           @@ ("test.target.environment" :> cfg.environment)
           @@ ("test.browser.name" :> cfg.browser_type)
           @@ ("test.browser.headless" :> cfg.headless)
           @@ ("test.viewport.width" :> cfg.viewport_width)
           @@ ("test.viewport.height" :> cfg.viewport_height),
           git_info)

\* the calls InstrumentedBrowser.__aenter__ awaits, in order:
\* async_playwright().start(), launcher.launch(), browser.new_context(),
\* context.new_page()
EnterAwaits == <<"playwright_start", "launch", "new_context", "new_page">>

\* InstrumentedBrowser.__aenter__ up to its first await: the providers, the
\* handler on the shared logger and the root span; the process is outside a
\* git work tree
Suite_aenter ==
    /\ ScopeCalls < MaxCalls
    /\ suspended.suite = ""
    /\ LET provider == Len(process.bound) + 1
           global == set_tracer_provider(process.provider, provider)
       IN  /\ spans' = Append(spans, start_span("suite", 0,
                          SuiteAttrs(SuiteConfig, SuiteId(provider), RunTimestamp,
                                     get_git_info(NoGit, NoGit))))
           /\ process' = [process EXCEPT
                  !.provider = global,
                  !.own = provider,
                  !.tracer = global,
                  !.bound = Append(@, global),
                  !.roots = Append(@, Len(spans) + 1),
                  !.handlers = Append(@, provider),
                  !.via = Append(@, global)]
    /\ suite_span' = Len(spans) + 1
    /\ suspended' = [suspended EXCEPT !.suite = EnterAwaits[1]]
    /\ UNCHANGED <<page, url, total, passed, failed, cases, calls, pending,
                   logs, redaction, acts, config>>

\* the position of x in a sequence that holds it once
Position(seq, x) == CHOOSE n \in DOMAIN seq : seq[n] = x

\* the call __aenter__ awaits returned: __aenter__ goes on to its next
\* await, or stores the page and returns
Suite_aenter_resume ==
    /\ \E n \in DOMAIN EnterAwaits : EnterAwaits[n] = suspended.suite
    /\ IF Position(EnterAwaits, suspended.suite) < Len(EnterAwaits)
       THEN /\ suspended' = [suspended EXCEPT
                   !.suite = EnterAwaits[Position(EnterAwaits, @) + 1]]
            /\ UNCHANGED <<page, url, calls>>
       ELSE /\ page' = Len(url) + 1
            /\ url' = Append(url, "http://localhost:8080/")
            /\ calls' = [calls EXCEPT !.enters = @ + 1]
            /\ suspended' = [suspended EXCEPT !.suite = ""]
    /\ UNCHANGED <<suite_span, total, passed, failed, spans, cases, pending,
                   logs, redaction, acts, config, process>>

\* what the driver raises when the browser session cannot be acquired or
\* released
SessionError == [id |-> 6, msg |-> "Target page, context or browser has been closed",
                 type |-> "Error"]

\* the call __aenter__ awaits raised: the providers are registered and the
\* root span is started, no page is stored, and the failure leaves
\* __aenter__, so that the `async with` statement runs neither the body nor
\* __aexit__
Suite_aenter_raises ==
    /\ \E n \in DOMAIN EnterAwaits : EnterAwaits[n] = suspended.suite
    /\ calls' = [calls EXCEPT !.escaped = SessionError]
    /\ suspended' = [suspended EXCEPT !.suite = ""]
    /\ UNCHANGED <<suite_span, page, url, total, passed, failed, spans, cases,
                   pending, logs, redaction, acts, config, process>>

\* the return value of InstrumentedBrowser.__aexit__
SuiteExitReturn_Suppress == TRUE

SuiteExitReturn == FALSE

\* the statements of InstrumentedBrowser.__aexit__, in order
SuiteExitEffects_FlushFirst ==
    <<"set_attributes", "end", "force_flush_spans", "force_flush_logs",
      "browser_close", "playwright_stop">>

SuiteExitEffects ==
    <<"set_attributes", "end", "browser_close", "playwright_stop",
      "force_flush_spans", "force_flush_logs">>

\* the statements of InstrumentedBrowser.__aexit__ that release the session:
\* the calls it awaits
ReleaseSteps == {"browser_close", "playwright_stop"}

\* the statements at the head of `rest` that run without a suspension
RECURSIVE Ran(_)
Ran(rest) ==
    IF rest = <<>> \/ Head(rest) \in ReleaseSteps THEN <<>>
    ELSE <<Head(rest)>> \o Ran(Tail(rest))

\* the call at which __aexit__ waits after them ("": it returns)
Awaited(rest) ==
    IF Len(Ran(rest)) = Len(rest) THEN "" ELSE rest[Len(Ran(rest)) + 1]

\* the statements of __aexit__ after the statement x
After(x) ==
    SubSeq(SuiteExitEffects, Position(SuiteExitEffects, x) + 1,
           Len(SuiteExitEffects))

\* self._provider.force_flush() among the statements ran: the span
\* processor of the instance's own provider exports the ended spans it
\* received
Flushed(ran, ended) ==
    IF \E n \in DOMAIN ran : ran[n] = "force_flush_spans"
    THEN process.flushed \cup {k \in DOMAIN ended :
                                  /\ ProviderOf(k) = process.own
                                  /\ ended[k].ends > 0}
    ELSE process.flushed

\* the root span as InstrumentedBrowser.__aexit__ leaves it
FinalizeRoot(s) ==
    end(set_attribute(set_attribute(set_attribute(set_attribute(s,
        "test.suite.total_tests", total),
        "test.suite.passed", passed),
        "test.suite.failed", failed),
        "test.suite.result", SuiteResult(passed, failed)))

\* InstrumentedBrowser.__aexit__(exc_type, exc_val, exc_tb) up to its first
\* await; exc_val is the failure that is leaving the suite body.  The
\* `async with` statement calls it after __aenter__ returned.
Suite_aexit ==
    /\ suite_span # 0
    /\ page # 0
    /\ suspended.suite = ""
    /\ ScopeCalls < MaxCalls
    /\ spans' = [spans EXCEPT ![suite_span] = FinalizeRoot(@)]
    /\ calls' = [calls EXCEPT
           !.exc_val = pending.exc,
           !.from = pending.from,
           !.effects = @ \o Ran(SuiteExitEffects)]
    /\ pending' = NoPending
    /\ process' = [process EXCEPT
           !.flushed = Flushed(Ran(SuiteExitEffects), spans')]
    /\ suspended' = [suspended EXCEPT !.suite = Awaited(SuiteExitEffects)]
    /\ UNCHANGED <<suite_span, page, total, passed, failed, cases, url,
                   logs, redaction, acts, config>>

\* the call __aexit__ awaits returned: __aexit__ goes on to its next await,
\* or flushes and returns
Suite_aexit_resume ==
    /\ suspended.suite \in ReleaseSteps
    /\ LET ran == <<suspended.suite>> \o Ran(After(suspended.suite))
           next == Awaited(After(suspended.suite))
       IN  /\ calls' = [calls EXCEPT
                  !.effects = @ \o ran,
                  !.exits = IF next = "" THEN @ + 1 ELSE @,
                  !.escaped = IF next = ""
                              THEN Propagate(calls.exc_val, SuiteExitReturn, NoExc)
                              ELSE @]
           /\ process' = [process EXCEPT !.flushed = Flushed(ran, spans)]
           /\ suspended' = [suspended EXCEPT !.suite = next]
    /\ UNCHANGED <<suite_span, page, total, passed, failed, spans, cases, url,
                   pending, logs, redaction, acts, config>>

\* the release `fault` that __aexit__ awaits raised: the statements after
\* it are not reached and the failure leaves __aexit__ in place of the one
\* that left the body
Suite_aexit_raises(fault) ==
    /\ suspended.suite = fault
    /\ fault \in ReleaseSteps
    /\ calls' = [calls EXCEPT
           !.exits = @ + 1,
           !.escaped = Propagate(calls.exc_val, SuiteExitReturn, SessionError),
           !.effects = @ \o <<fault>>]
    /\ suspended' = [suspended EXCEPT !.suite = ""]
    /\ UNCHANGED <<suite_span, page, total, passed, failed, spans, cases, url,
                   pending, logs, redaction, acts, config, process>>

\* the suite body is running: entered and not yet left
SuiteOpen == calls.enters > calls.exits

\* InstrumentedBrowser.test_case(name=..., case_id=..., tags=...,
\* description=...).  The counter is incremented first; before __aenter__
\* was called self._logger does not exist, the construction of the TestCase
\* raises AttributeError and no case is returned.  The case gets the page
\* the instance has at the call (0: None).
test_case(name, case_id, tags, description) ==
    /\ total < MaxCases
    /\ ScopeCalls < MaxCalls
    /\ pending = NoPending
    /\ total' = total + 1
    /\ IF suite_span = 0
       THEN /\ calls' = [calls EXCEPT !.early = @ + 1]
            /\ cases' = cases
       ELSE /\ cases' = Append(cases,
                   [tracer |-> Tracer, suite_ctx |-> suite_span,
                    page |-> page, record_result |-> "suite",
                    logger |-> TRUE, suite_name |-> SuiteConfig.suite_name,
                    name |-> name, case_id |-> case_id,
                    tags |-> tags, description |-> description,
                    case_span |-> 0, enters |-> 0, exits |-> 0,
                    exc_val |-> NoExc, escaped |-> NoExc])
            /\ calls' = calls
    /\ UNCHANGED <<suite_span, page, passed, failed, spans, url, pending,
                   logs, redaction, acts, config, process, suspended>>

(***************************************************************************)
(* TestCase                                                                *)
(***************************************************************************)
\* TestCase(tracer, suite_ctx, page, record_fn, logger=..., suite_name=...,
\* name=..., case_id=..., tags=..., description=...) constructed by the
\* caller, as the tests do it: on the suite's tracer, context and page, with
\* a result callback of its own
TestCase_init(name, case_id, tags, description, logger, suite_name) ==
    /\ suite_span # 0
    /\ Len(cases) < MaxCases
    /\ pending = NoPending
    /\ cases' = Append(cases,
           [tracer |-> Tracer, suite_ctx |-> suite_span,
            page |-> page, record_result |-> "mock",
            logger |-> logger, suite_name |-> suite_name,
            name |-> name, case_id |-> case_id,
            tags |-> tags, description |-> description,
            case_span |-> 0, enters |-> 0, exits |-> 0,
            exc_val |-> NoExc, escaped |-> NoExc])
    /\ UNCHANGED <<suite_span, page, total, passed, failed, spans, url,
                   calls, pending, logs, redaction, acts, config, process,
                   suspended>>

\* the attributes TestCase.__aenter__ starts the case span with
CaseAttrs(c) ==
    LET named == Put(NoAttrs, "test.case.name", c.name)
        identified == IF c.case_id # ""
                      THEN Put(named, "test.case.id", c.case_id) ELSE named
        tagged == IF c.tags # ""
                  THEN Put(identified, "test.case.tags", c.tags) ELSE identified
    IN  IF c.description # ""
        THEN Put(tagged, "test.case.description", c.description) ELSE tagged

\* TestCase.__aenter__
Case_aenter(i) ==
    /\ i \in DOMAIN cases
    /\ ScopeCalls < MaxCalls
    /\ pending = NoPending
    /\ spans' = Append(spans,
           start_span("case", cases[i].suite_ctx, CaseAttrs(cases[i])))
    /\ cases' = [cases EXCEPT ![i].case_span = Len(spans) + 1,
                              ![i].enters = @ + 1]
    /\ process' = [process EXCEPT !.via = Append(@, cases[i].tracer)]
    /\ UNCHANGED <<suite_span, page, total, passed, failed, url, calls,
                   pending, logs, redaction, acts, config, suspended>>

\* the return value of TestCase.__aexit__
CaseExitReturn_Suppress == TRUE

CaseExitReturn == FALSE

\* the failure path of TestCase.__aexit__ up to the read of page.url
StampFailed(s, exc_val) ==
    set_attribute(set_attribute(s,
        "test.case.result", "failed"),
        "test.case.failure_reason", exc_val.msg)

\* the failure path from the read of page.url to record_exception
StampFailure(s, exc_val, page_url) ==
    record_exception(
        set_status(
            set_attribute(s, "test.case.failure_url", page_url),
            "ERROR", exc_val.msg),
        exc_val)

\* the success path of TestCase.__aexit__ up to the report
StampPassed(s) ==
    set_status(set_attribute(s, "test.case.result", "passed"), "OK", "")

\* span.get_span_context(): the span's own id and the id of its trace,
\* which is the trace of its parent
RECURSIVE trace_id(_)
trace_id(k) == IF spans[k].parent = 0 THEN k ELSE trace_id(spans[k].parent)

span_id(k) == k

HexDigits == <<"0", "1", "2", "3", "4", "5", "6", "7", "8", "9",
               "a", "b", "c", "d", "e", "f">>

\* format(n, "0<width>x")
RECURSIVE format(_, _)
format(n, width) ==
    IF width = 0 /\ n = 0 THEN ""
    ELSE format(n \div 16, IF width = 0 THEN 0 ELSE width - 1)
         \o HexDigits[(n % 16) + 1]

\* the arguments of the logger.error call
LogRecord_Name(c, exc_val, page_url) ==
    [label |-> c.name,
     suite |-> c.suite_name, msg |-> exc_val.msg, url |-> page_url,
     trace_id |-> format(trace_id(c.case_span), 32),
     span_id |-> format(span_id(c.case_span), 16)]

LogRecord(c, exc_val, page_url) ==
    [label |-> IF c.case_id # "" THEN c.case_id ELSE c.name,
     suite |-> c.suite_name, msg |-> exc_val.msg, url |-> page_url,
     trace_id |-> format(trace_id(c.case_span), 32),
     span_id |-> format(span_id(c.case_span), 16)]

\* Logger.error on the shared logger: every handler registered on it emits
\* the record to the log provider it was made for
Handle(handlers, record) ==
    [h \in DOMAIN handlers |-> [log |-> record, provider |-> handlers[h]]]

\* what the read of self._page.url raises on a test case that was made
\* before the suite had a page
NoPage == [id |-> 8, msg |-> "'NoneType' object has no attribute 'url'",
           type |-> "AttributeError"]

\* TestCase.__aexit__(exc_type, exc_val, exc_tb).  `fault` names the exit
\* step whose collaborator raises ("none": every step returns); `caught`
\* says whether the caller catches the failure that leaves the scope.  On
\* a test case without a page the failure path stops at the read of
\* page.url.
Case_aexit(i, exc_val, caught, fault) ==
    /\ i \in DOMAIN cases
    /\ cases[i].case_span # 0
    /\ ScopeCalls < MaxCalls
    /\ pending # NoPending => exc_val = pending.exc
    /\ exc_val = NoExc => fault \in {"none", "report"}
    /\ fault = "log" => cases[i].logger
    /\ (exc_val # NoExc /\ cases[i].page = 0) => fault = "none"
    /\ LET c == cases[i]
           s == spans[c.case_span]
           no_page == exc_val # NoExc /\ c.page = 0
           at == IF no_page THEN "url" ELSE fault
           page_url == IF c.page = 0 THEN "" ELSE url[c.page]
           stamped ==
               IF exc_val # NoExc
               THEN IF at = "url" THEN StampFailed(s, exc_val)
                    ELSE StampFailure(StampFailed(s, exc_val), exc_val, page_url)
               ELSE StampPassed(s)
           raised == IF no_page THEN NoPage
                     ELSE IF at = "none" THEN NoExc ELSE ExitError
           escaped == Propagate(exc_val, CaseExitReturn, raised)
       IN  /\ caught \/ escaped # NoExc
           /\ IF at \in {"url", "report"} \/ c.record_result # "suite"
              THEN passed' = passed /\ failed' = failed
              ELSE record_result(exc_val = NoExc)
           /\ logs' = IF exc_val # NoExc /\ at \in {"none"} /\ c.logger
                      THEN Append(logs, LogRecord(c, exc_val, page_url))
                      ELSE logs
           /\ process' = IF exc_val # NoExc /\ at \in {"none"} /\ c.logger
                         THEN [process EXCEPT !.emitted =
                                  @ \o Handle(process.handlers, Len(logs) + 1)]
                         ELSE process
           /\ spans' = [spans EXCEPT ![c.case_span] =
                            IF at = "none" THEN end(stamped) ELSE stamped]
           /\ cases' = [cases EXCEPT ![i].exits = @ + 1,
                                     ![i].exc_val = exc_val,
                                     ![i].escaped = escaped]
           /\ pending' = IF SuiteOpen /\ escaped # NoExc /\ ~caught
                         THEN [exc |-> escaped,
                               from |-> IF pending # NoPending
                                        THEN pending.from ELSE i]
                         ELSE NoPending
    /\ UNCHANGED <<suite_span, page, total, url, calls, redaction, acts, config,
                   suspended>>

(***************************************************************************)
(* The caller and the driver                                               *)
(***************************************************************************)
\* the suite body raises outside every test case
BodyRaise(e) ==
    /\ SuiteOpen
    /\ pending = NoPending
    /\ \A i \in DOMAIN cases : cases[i].enters <= cases[i].exits
    /\ pending' = [exc |-> e, from |-> 0]
    /\ UNCHANGED <<suite_span, page, total, passed, failed, spans, cases,
                   url, calls, logs, redaction, acts, config, process,
                   suspended>>

\* the body of an open test case moves its page to another location
PageGoto(i, u) ==
    /\ i \in DOMAIN cases
    /\ cases[i].enters > cases[i].exits
    /\ pending = NoPending
    /\ cases[i].page # 0
    /\ url[cases[i].page] # u
    /\ url' = [url EXCEPT ![cases[i].page] = u]
    /\ UNCHANGED <<suite_span, page, total, passed, failed, spans, cases,
                   calls, pending, logs, redaction, acts, config, process,
                   suspended>>

(***************************************************************************)
(* sensitive.py.  A selector is a sequence of characters.                  *)
(***************************************************************************)
Uppers == <<"A", "B", "C", "D", "E", "F", "G", "H", "I", "J", "K", "L", "M",
           "N", "O", "P", "Q", "R", "S", "T", "U", "V", "W", "X", "Y", "Z">>

Lowers == <<"a", "b", "c", "d", "e", "f", "g", "h", "i", "j", "k", "l", "m",
           "n", "o", "p", "q", "r", "s", "t", "u", "v", "w", "x", "y", "z">>

\* one character without its letter case, as re.IGNORECASE compares it
Fold(ch) ==
    IF \E k \in 1..Len(Uppers) : Uppers[k] = ch
    THEN Lowers[CHOOSE k \in 1..Len(Uppers) : Uppers[k] = ch]
    ELSE ch

\* str.lower() on the letters of the model
lower(s) == [k \in 1..Len(s) |-> Fold(s[k])]

\* the alternatives of _SENSITIVE_PATTERNS, in the order of the expression
SENSITIVE_PATTERNS == <<
    <<"p", "a", "s", "s", "w", "o", "r", "d">>,
    <<"p", "a", "s", "s", "w", "d">>,
    <<"c", "a", "r", "d">>,
    <<"c", "v", "v">>,
    <<"s", "s", "n">>,
    <<"c", "r", "e", "d", "i", "t">>,
    <<"s", "e", "c", "r", "e", "t">>,
    <<"t", "o", "k", "e", "n">>>>

REDACTED == "[REDACTED]"

\* one alternative matched at position pos of the selector, character by
\* character from its k-th character on
RECURSIVE MatchAt(_, _, _, _)
MatchAt_CaseSensitive(pat, selector, pos, k) ==
    IF k > Len(pat) THEN TRUE
    ELSE IF pos + k - 1 > Len(selector) THEN FALSE
    ELSE IF selector[pos + k - 1] # pat[k] THEN FALSE
    ELSE MatchAt(pat, selector, pos, k + 1)

MatchAt(pat, selector, pos, k) ==
    IF k > Len(pat) THEN TRUE
    ELSE IF pos + k - 1 > Len(selector) THEN FALSE
    ELSE IF Fold(selector[pos + k - 1]) # Fold(pat[k]) THEN FALSE
    ELSE MatchAt(pat, selector, pos, k + 1)

\* _SENSITIVE_PATTERNS.search(selector): the scan from position pos on
RECURSIVE Search(_, _)
Search(selector, pos) ==
    IF pos > Len(selector) THEN FALSE
    ELSE IF \E a \in 1..Len(SENSITIVE_PATTERNS) :
               MatchAt(SENSITIVE_PATTERNS[a], selector, pos, 1)
    THEN TRUE
    ELSE Search(selector, pos + 1)

is_sensitive_selector(selector) == Search(selector, 1)

redact_if_needed(value, selector, sensitive) ==
    IF sensitive \/ is_sensitive_selector(selector) THEN REDACTED ELSE value

\* the pieces the selectors of the model are concatenated from
Chunks == {
    <<"#">>,
    <<"i", "n", "p", "u", "t">>,
    <<"e", "m", "a", "i", "l">>,
    <<"p", "a", "s", "s">>,
    <<"w", "o", "r", "d">>,
    <<"w", "d">>,
    <<"P", "a", "s", "s", "W", "o", "r", "d">>,
    <<"C", "a", "r", "d">>,
    <<"c", "v", "v">>,
    <<"S", "S", "N">>,
    <<"s", "s">>,
    <<"n">>,
    <<"c", "r", "e", "d", "i", "t">>,
    <<"S", "e", "c", "r", "e", "t">>,
    <<"t", "o">>,
    <<"K", "E", "N">>}

RECURSIVE Concat(_)
Concat(n) ==
    IF n = 0 THEN {<<>>}
    ELSE Concat(n - 1) \cup {s \o c : s \in Concat(n - 1), c \in Chunks}

Selectors == Concat(MaxParts)

Values == {"secret123", "test@example.com", ""}

NoRedaction == [selector |-> <<>>, value |-> "", sensitive |-> FALSE,
                result |-> "", state |-> "idle"]

(***************************************************************************)
(* spans.py and actions.py.  Selectors, expected texts and patterns are    *)
(* sequences of characters; Str gives the string that is written into a    *)
(* span name, an attribute or a message.                                   *)
(***************************************************************************)
\* instrumented action calls on one test case
MaxActions == 1
\* elements the driver finds for a selector, and the count a test expects
MaxElements == 2

RECURSIVE Str(_)
Str(s) == IF s = <<>> THEN "" ELSE s[1] \o Str(Tail(s))

\* the characters of the page locations of the model
Chars(u) ==
    IF u = "http://localhost:8080/"
    THEN <<"h", "t", "t", "p", ":", "/", "/", "l", "o", "c", "a",
         "l", "h", "o", "s", "t", ":", "8", "0", "8", "0",
         "/">>
    ELSE <<"h", "t", "t", "p", ":", "/", "/", "l", "o", "c", "a",
         "l", "h", "o", "s", "t", ":", "8", "0", "8", "0",
         "/", "f", "a", "i", "l">>

\* `sub in s` on strings
Contains(sub, s) ==
    \E p \in 0..Len(s) :
        /\ p + Len(sub) <= Len(s)
        /\ SubSeq(s, p + 1, p + Len(sub)) = sub

\* spans.action_span: the span that tracer.start_as_current_span starts
action_span_TypeOnly(parent_ctx, action_type, selector, extra_attrs) ==
    [kind |-> "action", name |-> action_type, parent |-> parent_ctx,
     attrs |-> Update(Put(NoAttrs, "test.action.type", action_type),
                      extra_attrs),
     status |-> "UNSET", description |-> "", exception |-> NoExc, ends |-> 0]

action_span(parent_ctx, action_type, selector, extra_attrs) ==
    LET name == IF selector # <<>>
                THEN action_type \o "(" \o Str(selector) \o ")"
                ELSE action_type
        typed == Put(NoAttrs, "test.action.type", action_type)
        attrs == IF selector # <<>>
                 THEN Put(typed, "test.action.selector", Str(selector))
                 ELSE typed
    IN  [kind |-> "action", name |-> name, parent |-> parent_ctx,
         attrs |-> Update(attrs, extra_attrs), status |-> "UNSET",
         description |-> "", exception |-> NoExc, ends |-> 0]

\* leaving the `with` block of start_as_current_span: a failure that leaves
\* the block is recorded on the span and sets its status, the span is ended
\* and the failure goes on
span_exit_OpenOnFailure(s, exc) ==
    IF exc # NoExc THEN s ELSE end(s)

span_exit(s, exc) ==
    end(IF exc # NoExc
        THEN set_status(record_exception(s, exc), "ERROR",
                        exc.type \o ": " \o exc.msg)
        ELSE s)

\* what the driver raises when a call fails (a wait that timed out)
DriverError == [id |-> 4, msg |-> "Timeout 5000ms exceeded.",
                type |-> "TimeoutError"]

DriverOutcomes == {NoExc, DriverError}

\* raise AssertionError(msg)
AssertionError(msg) == [id |-> 5, msg |-> msg, type |-> "AssertionError"]

\* the failure of the last action on test case i that is travelling
\* through the body of i: raised while i was open, and i has not exited since
Travelling(i) ==
    LET raised == {k \in DOMAIN acts :
                      /\ acts[k].case = i
                      /\ acts[k].raised # NoExc
                      /\ acts[k].exits = cases[i].exits
                      /\ cases[i].enters > cases[i].exits}
    IN  IF raised = {} THEN NoExc
        ELSE acts[CHOOSE k \in raised : \A j \in raised : j <= k].raised

\* the calls of actions made on test case i: those that returned or
\* raised, those that wait for the driver, and the open custom blocks
CallsOn(i) ==
    Cardinality({k \in DOMAIN acts : acts[k].case = i})
        + Cardinality({r \in suspended.actions : r.case = i})
        + Cardinality({b \in suspended.blocks : b.case = i})

\* One call of a method of ActionInstrumentor through the delegate of test
\* case i, up to its first await.  driver holds the calls the method makes
\* on the page, each of them awaited; stages[n] is the action span while
\* the n-th of them is awaited and the last stage the span as the body of
\* the `with` block leaves it; raised is what the call raises, page_url the
\* page's location after the first driver call.  A method that awaits
\* nothing leaves its `with` block in the same step.  status_message keeps
\* the description the body gave to set_status.
ActionCall(i, op, args, stages, driver, raised, page_url) ==
    /\ i \in DOMAIN cases
    /\ cases[i].case_span # 0
    /\ CallsOn(i) < MaxActions
    /\ pending = NoPending
    /\ process' = [process EXCEPT !.via = Append(@, cases[i].tracer)]
    /\ IF driver = <<>>
       THEN /\ spans' = Append(spans, span_exit(stages[1], raised))
            /\ acts' = Append(acts,
                   [case |-> i, op |-> op, args |-> args,
                    span |-> Len(spans) + 1,
                    driver |-> driver, raised |-> raised,
                    status_message |-> stages[1].description,
                    open |-> cases[i].enters > cases[i].exits,
                    exits |-> cases[i].exits])
            /\ pending' = IF raised # NoExc /\ cases[i].enters <= cases[i].exits
                             /\ SuiteOpen
                          THEN [exc |-> raised, from |-> 0]
                          ELSE pending
            /\ suspended' = suspended
       ELSE /\ spans' = Append(spans, stages[1])
            /\ suspended' = [suspended EXCEPT !.actions = @ \cup
                   {[case |-> i, op |-> op, args |-> args,
                     span |-> Len(spans) + 1,
                     driver |-> driver, at |-> 1, stages |-> stages,
                     raised |-> raised,
                     moves |-> page_url # url[cases[i].page],
                     page_url |-> page_url,
                     open |-> cases[i].enters > cases[i].exits,
                     exits |-> cases[i].exits]}]
            /\ UNCHANGED <<acts, pending>>
    /\ UNCHANGED <<suite_span, page, total, passed, failed, cases, calls,
                   url, logs, redaction, config>>

\* The driver call that the suspended action r awaits returned or raised:
\* the method goes on to its next await with the span of the next stage, or
\* it leaves its `with` block, which ends the span.  The first driver call
\* of a navigation moves the page.
ActionResume(r) ==
    /\ r \in suspended.actions
    /\ url' = IF r.at = 1 /\ r.moves
              THEN [url EXCEPT ![cases[r.case].page] = r.page_url]
              ELSE url
    /\ IF r.at < Len(r.driver)
       THEN /\ spans' = [spans EXCEPT ![r.span] = r.stages[r.at + 1]]
            /\ suspended' = [suspended EXCEPT !.actions =
                   (@ \ {r}) \cup {[r EXCEPT !.at = @ + 1]}]
            /\ UNCHANGED <<acts, pending>>
       ELSE /\ spans' = [spans EXCEPT ![r.span] =
                            span_exit(r.stages[r.at + 1], r.raised)]
            /\ acts' = Append(acts,
                   [case |-> r.case, op |-> r.op, args |-> r.args,
                    span |-> r.span,
                    driver |-> r.driver, raised |-> r.raised,
                    status_message |-> r.stages[r.at + 1].description,
                    open |-> r.open, exits |-> r.exits])
            /\ pending' = IF r.raised # NoExc /\ ~r.open /\ SuiteOpen
                          THEN [exc |-> r.raised, from |-> 0]
                          ELSE pending
            /\ suspended' = [suspended EXCEPT !.actions = @ \ {r}]
    /\ UNCHANGED <<suite_span, page, total, passed, failed, cases, calls,
                   logs, redaction, config, process>>

\* an instrumented action on a test case that has no page: the read of
\* self._page.url raises in the `with` block of the span s
without_page(i, op, args, s) ==
    ActionCall(i, op, args, <<s>>, <<>>, NoPage, "")

\* the span of an action of test case i with its page_url attribute
Opened_ActiveSpan(i, action_type, selector, extra_attrs) ==
    set_attribute(
        action_span(CHOOSE j \in DOMAIN spans :
                        /\ spans[j].kind = "case"
                        /\ \A l \in DOMAIN spans : spans[l].kind = "case" => l <= j,
                    action_type, selector, extra_attrs),
        "test.action.page_url", url[cases[i].page])

Opened(i, action_type, selector, extra_attrs) ==
    set_attribute(
        action_span(cases[i].case_span, action_type, selector, extra_attrs),
        "test.action.page_url", url[cases[i].page])

\* the navigation timing the page reports
Timing == [domContentLoaded |-> 150, loadEvent |-> 300,
           transferSize |-> 1024, domInteractive |-> 100]

TimingOutcomes == {"raises", "null", "timing"}

\* `except Exception: pass` around the timing collection: what leaves it
TimingCaught_Reraise(err) == err

TimingCaught(err) == NoExc

\* ActionInstrumentor.navigate(url).  goto_err is what page.goto raises,
\* response the status of the response (0: no response), timing what
\* page.evaluate does.
navigate(i, target, goto_err, response, timing) ==
    LET s1 == Opened(i, "navigate", <<>>,
                     Put(NoAttrs, "test.action.target_url", target))
        s2 == IF response # 0
              THEN set_attribute(s1, "test.navigation.response_status", response)
              ELSE s1
        s3 == IF timing = "timing"
              THEN set_attribute(set_attribute(set_attribute(set_attribute(s2,
                       "test.navigation.dom_content_loaded_ms",
                           Timing.domContentLoaded),
                       "test.navigation.load_event_ms", Timing.loadEvent),
                       "test.navigation.transfer_size_bytes",
                           Timing.transferSize),
                       "test.navigation.dom_interactive_ms",
                           Timing.domInteractive)
              ELSE s2
        left == IF timing = "raises" THEN TimingCaught(DriverError) ELSE NoExc
        goto == [op |-> "goto", args |-> <<target>>]
        evaluate == [op |-> "evaluate", args |-> <<>>]
        args == [url |-> target, goto_err |-> goto_err,
                 response |-> response, timing |-> timing]
    IN  IF cases[i].page = 0
        THEN without_page(i, "navigate", args,
                 action_span(cases[i].case_span, "navigate", <<>>,
                             Put(NoAttrs, "test.action.target_url", target)))
        ELSE IF goto_err # NoExc
        THEN ActionCall(i, "navigate", args, <<s1, s1>>,
                        <<goto>>, goto_err, url[cases[i].page])
        ELSE IF left # NoExc
        THEN ActionCall(i, "navigate", args, <<s1, s2, s3>>,
                        <<goto, evaluate>>, left, target)
        ELSE ActionCall(i, "navigate", args,
                        <<s1, s2, set_status(s3, "OK", "")>>,
                        <<goto, evaluate>>, NoExc, target)

\* ActionInstrumentor.click(selector)
click(i, selector, err) ==
    LET s1 == Opened(i, "click", selector, NoAttrs)
        s2 == IF err = NoExc THEN set_status(s1, "OK", "") ELSE s1
    IN  IF cases[i].page = 0
        THEN without_page(i, "click", [selector |-> selector],
                 action_span(cases[i].case_span, "click", selector, NoAttrs))
        ELSE ActionCall(i, "click", [selector |-> selector], <<s1, s2>>,
                        <<[op |-> "click", args |-> <<Str(selector)>>]>>, err,
                        url[cases[i].page])

\* the value ActionInstrumentor.fill hands to page.fill
FillArgument_Redacted(value, redacted) == redacted

FillArgument(value, redacted) == value

\* what page.fill(selector, value) does: it fills the field, or the wait
\* for the selector times out, or the element is found and cannot be
\* filled, and then the driver's failure carries the log of the call, which
\* names its arguments
FillOutcomes == {"filled", "timeout", "not_editable"}

page_fill(outcome, selector, value) ==
    CASE outcome = "filled" -> NoExc
      [] outcome = "timeout" -> DriverError
      [] outcome = "not_editable" ->
             [id |-> 7,
              msg |-> "Timeout 30000ms exceeded. Call log: waiting for locator(\""
                          \o Str(selector) \o "\"), fill(\"" \o value \o "\")",
              type |-> "TimeoutError"]

\* the body of the `with` block of fill on the opened span s1; err is what
\* page.fill raised
fill_body(s1, selector, value, sensitive, err) ==
    LET redacted == redact_if_needed(value, selector, sensitive)
        s2 == set_attribute(s1, "test.action.input_value", redacted)
    IN  IF err = NoExc THEN set_status(s2, "OK", "") ELSE s2

\* ActionInstrumentor.fill(selector, value, sensitive)
fill(i, selector, value, sensitive, outcome) ==
    LET s1 == Opened(i, "fill", selector, NoAttrs)
        redacted == redact_if_needed(value, selector, sensitive)
        err == page_fill(outcome, selector, value)
        args == [selector |-> selector, value |-> value,
                 sensitive |-> sensitive, outcome |-> outcome]
    IN  IF cases[i].page = 0
        THEN without_page(i, "fill", args,
                 action_span(cases[i].case_span, "fill", selector, NoAttrs))
        ELSE ActionCall(i, "fill", args,
                        <<set_attribute(s1, "test.action.input_value", redacted),
                          fill_body(s1, selector, value, sensitive, err)>>,
                        <<[op |-> "fill",
                           args |-> <<Str(selector),
                                      FillArgument(value, redacted)>>]>>,
                        err, url[cases[i].page])

\* ActionInstrumentor.assert_visible(selector)
assert_visible(i, selector, err) ==
    LET s1 == Opened(i, "assert_visible", selector, NoAttrs)
        s2 == IF err = NoExc
              THEN set_status(set_attribute(s1, "test.action.result", "success"),
                              "OK", "")
              ELSE s1
    IN  IF cases[i].page = 0
        THEN without_page(i, "assert_visible", [selector |-> selector],
                 action_span(cases[i].case_span, "assert_visible", selector,
                             NoAttrs))
        ELSE ActionCall(i, "assert_visible", [selector |-> selector],
                        <<s1, s2>>,
                        <<[op |-> "wait_for_selector",
                           args |-> <<Str(selector), "visible", "5000">>]>>,
                        err, url[cases[i].page])

\* the test of assert_text
TextMatches_CaseSensitive(expected, text) == Contains(expected, text)

TextMatches_Always(expected, text) == TRUE

TextMatches(expected, text) == Contains(lower(expected), lower(text))

\* ActionInstrumentor.assert_text(selector, expected).  err is what
\* wait_for_selector raises, text what element.text_content() returns.
assert_text(i, selector, expected, text, err) ==
    LET s1 == Opened(i, "assert_text", selector, NoAttrs)
        wait == [op |-> "wait_for_selector",
                 args |-> <<Str(selector), "visible", "5000">>]
        text_content == [op |-> "text_content", args |-> <<>>]
        args == [selector |-> selector, expected |-> expected, text |-> text]
        message == "Expected '" \o Str(expected) \o "' in '" \o Str(text) \o "'"
    IN  IF cases[i].page = 0
        THEN without_page(i, "assert_text", args,
                 action_span(cases[i].case_span, "assert_text", selector,
                             NoAttrs))
        ELSE IF err # NoExc
        THEN ActionCall(i, "assert_text", args, <<s1, s1>>,
                        <<wait>>, err, url[cases[i].page])
        ELSE IF TextMatches(expected, text)
        THEN ActionCall(i, "assert_text", args,
                 <<s1, s1,
                   set_status(
                       set_attribute(s1, "test.action.result", "success"),
                       "OK", "")>>,
                 <<wait, text_content>>, NoExc, url[cases[i].page])
        ELSE ActionCall(i, "assert_text", args,
                 <<s1, s1,
                   set_status(
                       set_attribute(s1, "test.action.result", "failed"),
                       "ERROR", message)>>,
                 <<wait, text_content>>, AssertionError(message),
                 url[cases[i].page])

\* the message assert_count raises
CountMessage_NoSelector(selector, expected_count, actual) ==
    "Expected " \o ToString(expected_count) \o " elements, got "
        \o ToString(actual)

CountMessage(selector, expected_count, actual) ==
    "Expected " \o ToString(expected_count) \o " elements matching '"
        \o Str(selector) \o "', got " \o ToString(actual)

\* ActionInstrumentor.assert_count(selector, expected_count).  err is what
\* query_selector_all raises, actual the number of elements it returns.
assert_count(i, selector, expected_count, actual, err) ==
    LET s1 == Opened(i, "assert_count", selector, NoAttrs)
        query == [op |-> "query_selector_all", args |-> <<Str(selector)>>]
        args == [selector |-> selector, expected_count |-> expected_count,
                 actual |-> actual]
        s2 == set_attribute(s1, "test.action.result",
                  IF actual = expected_count THEN "success" ELSE "failed")
    IN  IF cases[i].page = 0
        THEN without_page(i, "assert_count", args,
                 action_span(cases[i].case_span, "assert_count", selector,
                             NoAttrs))
        ELSE IF err # NoExc
        THEN ActionCall(i, "assert_count", args, <<s1, s1>>,
                        <<query>>, err, url[cases[i].page])
        ELSE IF actual = expected_count
        THEN ActionCall(i, "assert_count", args,
                 <<s1, set_status(s2, "OK", "")>>,
                 <<query>>, NoExc, url[cases[i].page])
        ELSE ActionCall(i, "assert_count", args,
                 <<s1, set_status(s2, "ERROR",
                     "Expected " \o ToString(expected_count)
                         \o " elements, got " \o ToString(actual))>>,
                 <<query>>,
                 AssertionError(CountMessage(selector, expected_count, actual)),
                 url[cases[i].page])

\* the test of assert_url
UrlMatches_Always(pattern, page_url) == TRUE

UrlMatches(pattern, page_url) == Contains(pattern, Chars(page_url))

\* ActionInstrumentor.assert_url(pattern)
assert_url(i, pattern) ==
    LET s1 == Opened(i, "assert_url", <<>>, NoAttrs)
        page_url == url[cases[i].page]
        args == [pattern |-> pattern, page_url |-> page_url]
        raised == AssertionError("Expected '" \o Str(pattern)
                                     \o "' in URL, got " \o page_url)
    IN  IF cases[i].page = 0
        THEN without_page(i, "assert_url",
                 [pattern |-> pattern, page_url |-> ""],
                 action_span(cases[i].case_span, "assert_url", <<>>, NoAttrs))
        ELSE IF UrlMatches(pattern, page_url)
        THEN ActionCall(i, "assert_url", args,
                 <<set_status(
                       set_attribute(s1, "test.action.result", "success"),
                       "OK", "")>>,
                 <<>>, NoExc, page_url)
        ELSE ActionCall(i, "assert_url", args,
                 <<set_status(
                       set_attribute(s1, "test.action.result", "failed"),
                       "ERROR", "Expected '" \o Str(pattern) \o "' in URL '"
                                    \o page_url \o "'")>>,
                 <<>>, raised, page_url)

\* `with test.action_span(action_type, selector, **extra_attrs) as span:`
\* is entered on test case i.  The parent is self._case_ctx; before
\* __aenter__ it is None and the span is started in the current context of
\* the caller, whose current span is that of the block `within` the caller
\* is in (0: the caller is in no block, the span has no parent).
custom_action(i, within, action_type, selector, extra_attrs) ==
    /\ i \in DOMAIN cases
    /\ within = 0 \/ \E b \in suspended.blocks : b.span = within
    /\ CallsOn(i) < MaxActions
    /\ pending = NoPending
    /\ spans' = Append(spans,
           action_span(IF cases[i].case_span # 0 THEN cases[i].case_span
                       ELSE within,
                       action_type, selector, extra_attrs))
    /\ process' = [process EXCEPT !.via = Append(@, cases[i].tracer)]
    /\ suspended' = [suspended EXCEPT !.blocks = @ \cup
           {[case |-> i, span |-> Len(spans) + 1,
             args |-> [action_type |-> action_type, selector |-> selector,
                       extra_attrs |-> extra_attrs],
             open |-> cases[i].enters > cases[i].exits,
             exits |-> cases[i].exits]}]
    /\ UNCHANGED <<suite_span, page, total, passed, failed, cases, calls,
                   url, pending, logs, redaction, acts, config>>

\* span.set_status(code, description) in the body of the block b
custom_set_status(b, code, description) ==
    /\ b \in suspended.blocks
    /\ spans' = [spans EXCEPT ![b.span] = set_status(@, code, description)]
    /\ UNCHANGED <<suite_span, page, total, passed, failed, cases, calls,
                   url, pending, logs, redaction, acts, config, process,
                   suspended>>

\* span.set_attribute(key, value) in the body of the block b
custom_set_attribute(b, key, value) ==
    /\ b \in suspended.blocks
    /\ spans' = [spans EXCEPT ![b.span] = set_attribute(@, key, value)]
    /\ UNCHANGED <<suite_span, page, total, passed, failed, cases, calls,
                   url, pending, logs, redaction, acts, config, process,
                   suspended>>

\* the body of the block b returns or raises err: the scope of
\* start_as_current_span ends the span, and err goes on to the caller
custom_exit(b, err) ==
    /\ b \in suspended.blocks
    /\ spans' = [spans EXCEPT ![b.span] = span_exit(@, err)]
    /\ acts' = Append(acts,
           [case |-> b.case, op |-> "action_span", args |-> b.args,
            span |-> b.span, driver |-> <<>>, raised |-> err,
            status_message |-> spans[b.span].description,
            open |-> b.open, exits |-> b.exits])
    /\ pending' = IF err # NoExc /\ ~b.open /\ SuiteOpen
                  THEN [exc |-> err, from |-> 0]
                  ELSE pending
    /\ suspended' = [suspended EXCEPT !.blocks = @ \ {b}]
    /\ UNCHANGED <<suite_span, page, total, passed, failed, cases, calls,
                   url, logs, redaction, config, process>>

\* TestCase.set_attribute(key, value) on a test case that was entered: the
\* attribute goes to the case span, which drops it once it is ended
Case_set_attribute(i, key, value) ==
    /\ i \in DOMAIN cases
    /\ cases[i].case_span # 0
    /\ pending = NoPending
    /\ spans' = [spans EXCEPT ![cases[i].case_span] =
                     set_attribute(@, key, value)]
    /\ UNCHANGED <<suite_span, page, total, passed, failed, cases, calls,
                   url, pending, logs, redaction, acts, config, process,
                   suspended>>

\* the attributes the callers of the model write on a span of their own
CustomAttributes == {[key |-> "arc.home.total_links", value |-> 42]}

\* the custom actions the test cases of the model open
CustomActions ==
    {[action_type |-> "extract_metadata", selector |-> <<>>,
      extra_attrs |-> NoAttrs],
     [action_type |-> "click",
      selector |-> <<"b", "u", "t", "t", "o", "n", "#", "s", "u", "b", "m", "i", "t">>,
      extra_attrs |-> NoAttrs],
     [action_type |-> "navigate", selector |-> <<>>,
      extra_attrs |-> Put(NoAttrs, "target_url", "http://example.com")],
     [action_type |-> "fill",
      selector |-> <<"i", "n", "p", "u", "t", "#", "e", "m", "a", "i", "l">>,
      extra_attrs |-> Put(NoAttrs, "custom_key", "custom_val")]}

\* the arguments the test cases of the model pass to the actions
FillSelectors == {<<"i", "n", "p", "u", "t", "#", "e", "m", "a", "i", "l">>,
                  <<"i", "n", "p", "u", "t", "#", "p", "a", "s", "s", "w", "o", "r", "d">>}

FillValues == {"secret123", "test@example.com"}

ClickSelectors == {<<"b", "u", "t", "t", "o", "n", "#", "s", "u", "b", "m", "i", "t">>}

TextSelectors == {<<"h", "1">>}

Expectations == {<<"H", "e", "l", "l", "o">>, <<"h", "e", "l", "l", "o">>,
                 <<"W", "O", "R", "L", "D">>,
                 <<"M", "i", "s", "s", "i", "n", "g">>}

Texts == {<<>>,
          <<"H", "e", "l", "l", "o", " ", "W", "o", "r", "l", "d">>,
          <<"h", "e", "l", "l", "o">>}

CountSelectors == {<<"l", "i">>}

UrlPatterns == {<<"l", "o", "c", "a", "l", "h", "o", "s", "t">>,
                <<"/", "a", "r", "c", "/">>, <<"/", "f", "a", "i", "l">>}

Responses == {0, 200}

(***************************************************************************)
(* config.py.  A constructor argument is given or left out; a variable of  *)
(* the environment is set or not.  The values of PLAYWRIGHT_OTEL_HEADLESS  *)
(* are sequences of characters.                                            *)
(***************************************************************************)
\* the string options that have an environment variable, with the built-in
\* default of each (the second argument of os.environ.get)
EnvOptions == {"service_name", "otlp_endpoint", "environment", "trigger",
               "browser_type"}

EnvDefaults == [service_name  |-> "playwright-otel",
                otlp_endpoint |-> "http://localhost:4317",
                environment   |-> "development",
                trigger       |-> "manual",
                browser_type  |-> "chromium"]

\* the value of a dataclass field after the generated __init__: the
\* argument when it was given, the class default otherwise
field(arg, default) == IF arg.given THEN arg.value ELSE default

\* os.environ.get(name, default)
environ_get(var, default) == IF var.set THEN var.value ELSE default

\* one string option in __post_init__
string_option(value, var, default) ==
    IF value = "" THEN environ_get(var, default) ELSE value

\* the words that switch headless off
HeadlessOff == {<<"f", "a", "l", "s", "e">>, <<"0">>, <<"n", "o">>}

\* the headless flag in __post_init__
headless_option(arg, value, var) ==
    IF var.set /\ value = TRUE THEN lower(var.value) \notin HeadlessOff
    ELSE value

\* SmokeshowConfig(**args) under the environment env: the fields after
\* __init__ and __post_init__
SmokeshowConfig(args, env) ==
    [o \in EnvOptions |->
        string_option(field(args[o], ""), env[o], EnvDefaults[o])]
    @@ [suite_name |-> field(args.suite_name, ""),
        headless   |-> headless_option(args.headless,
                           field(args.headless, TRUE), env.headless)]

\* the arguments and environments of the model
StringArgs == {[given |-> FALSE, value |-> ""],
               [given |-> TRUE, value |-> "explicit"]}

StringEnvs == {[set |-> FALSE, value |-> ""], [set |-> TRUE, value |-> "env"]}

HeadlessArgs == {[given |-> FALSE, value |-> TRUE],
                 [given |-> TRUE, value |-> TRUE],
                 [given |-> TRUE, value |-> FALSE]}

HeadlessEnvs == {[set |-> FALSE, value |-> <<>>],
                 [set |-> TRUE, value |-> <<"f", "a", "l", "s", "e">>],
                 [set |-> TRUE, value |-> <<"F", "a", "l", "s", "e">>],
                 [set |-> TRUE, value |-> <<"n", "o">>],
                 [set |-> TRUE, value |-> <<"1">>]}

ConfigArgs ==
    {a @@ [suite_name |-> [given |-> TRUE, value |-> "smoke"], headless |-> h] :
        a \in [EnvOptions -> StringArgs], h \in HeadlessArgs}

ConfigEnvs ==
    {e @@ [headless |-> h] : e \in [EnvOptions -> StringEnvs], h \in HeadlessEnvs}

NoConfig == [state |-> "idle"]

Init ==
    /\ suite_span = 0
    /\ page = 0
    /\ total = 0
    /\ passed = 0
    /\ failed = 0
    /\ spans = <<>>
    /\ cases = <<>>
    /\ url = <<>>
    /\ calls = NoCalls
    /\ pending = NoPending
    /\ logs = <<>>
    /\ redaction = NoRedaction
    /\ acts = <<>>
    /\ config = NoConfig
    /\ process = NoProcess
    /\ suspended = NoSuspended

\* one call of redact_if_needed
Redact ==
    /\ redaction.state = "called"
    /\ redaction' = [redaction EXCEPT
           !.result = redact_if_needed(redaction.value, redaction.selector,
                                       redaction.sensitive),
           !.state = "returned"]
    /\ UNCHANGED <<suite_span, page, total, passed, failed, spans, cases,
                   url, calls, pending, logs, acts, config, process,
                   suspended>>

\* The caller of the model: it enters the suite instance and each test case
\* it was given once, as in `async with InstrumentedBrowser(...) as browser`
\* and `async with browser.test_case(...) as test`; it may call __aexit__
\* again, and it may ask for a test case before or after the suite's scope.
\* It is one coroutine: while a call of it waits, nothing else runs.
Next ==
    \/ Quiet /\ suite_span = 0 /\ Suite_aenter
    \/ Suite_aenter_resume
    \/ Quiet /\ Suite_aexit
    \/ Suite_aexit_resume
    \/ LET inp == CaseInputs[(total % Len(CaseInputs)) + 1]
       IN  Quiet /\ test_case(inp.name, inp.case_id, inp.tags, inp.description)
    \/ \E i \in 1..MaxCases :
           Quiet /\ i \in DOMAIN cases /\ cases[i].enters = 0 /\ Case_aenter(i)
    \/ \E i \in 1..MaxCases, e \in Failures \cup {NoExc}, caught \in BOOLEAN :
           Quiet /\ Case_aexit(i, e, caught, "none")
    \/ \E e \in Failures : Quiet /\ BodyRaise(e)
    \/ \E i \in 1..MaxCases, u \in Urls : Quiet /\ PageGoto(i, u)

Spec == Init /\ [][Next]_vars

\* the same caller, with collaborators that may raise in an exit step of a
\* test case (the page's url, the result callback, the logger)
NextFault ==
    \/ Quiet /\ suite_span = 0 /\ Suite_aenter
    \/ Suite_aenter_resume
    \/ Quiet /\ Suite_aexit
    \/ Suite_aexit_resume
    \/ LET inp == CaseInputs[(total % Len(CaseInputs)) + 1]
       IN  Quiet /\ test_case(inp.name, inp.case_id, inp.tags, inp.description)
    \/ \E i \in 1..MaxCases :
           Quiet /\ i \in DOMAIN cases /\ cases[i].enters = 0 /\ Case_aenter(i)
    \/ \E i \in 1..MaxCases, e \in Failures \cup {NoExc}, caught \in BOOLEAN,
          fault \in ExitFaults :
           Quiet /\ Case_aexit(i, e, caught, fault)

SpecFault == Init /\ [][NextFault]_vars

\* every test case created so far has left its scope
NoneOpen == \A i \in DOMAIN cases : cases[i].exits >= 1

\* a caller that nests its scopes (the suite and each test case are entered
\* and exited once, one test case after the other), with test cases from
\* the factory and test cases it constructed itself, with or without a
\* logger
NextLog ==
    \/ Quiet /\ suite_span = 0 /\ Suite_aenter
    \/ Suite_aenter_resume
    \/ Quiet /\ calls.exits = 0 /\ Suite_aexit
    \/ Suite_aexit_resume
    \/ LET inp == CaseInputs[(Len(cases) % Len(CaseInputs)) + 1]
       IN  /\ Quiet /\ NoneOpen
           /\ test_case(inp.name, inp.case_id, inp.tags, inp.description)
    \/ \E logger \in BOOLEAN :
           LET inp == CaseInputs[(Len(cases) % Len(CaseInputs)) + 1]
           IN  /\ Quiet /\ NoneOpen
               /\ TestCase_init(inp.name, inp.case_id, inp.tags,
                                inp.description, logger, "")
    \/ \E i \in 1..MaxCases :
           Quiet /\ i \in DOMAIN cases /\ cases[i].enters = 0 /\ Case_aenter(i)
    \/ \E i \in 1..MaxCases, e \in Failures \cup {NoExc}, caught \in BOOLEAN :
           /\ Quiet
           /\ i \in DOMAIN cases
           /\ cases[i].exits = 0
           /\ Case_aexit(i, e, caught, "none")
    \/ \E i \in 1..MaxCases, u \in Urls : Quiet /\ PageGoto(i, u)

SpecLog == Init /\ [][NextLog]_vars

\* the body of the suite goes on to a call on test case i: nothing waits,
\* and no failure of an action travels through the body of i
Proceeds(i) == Quiet /\ SuiteOpen /\ Travelling(i) = NoExc

\* a caller with one test case that calls the instrumented actions on it,
\* while it is open and after it was closed, opens custom action spans on
\* it, also before it was entered, and sets attributes of it; the body of
\* a custom block writes to its span and returns or raises, and calls
\* nothing else; the body of the test case
\* raises nothing of its own and does not catch what an action raises, and
\* nobody catches what leaves the test case
NextAction ==
    \/ Quiet /\ suite_span = 0 /\ Suite_aenter
    \/ Suite_aenter_resume
    \/ Quiet /\ calls.exits = 0 /\ Suite_aexit
    \/ Suite_aexit_resume
    \/ /\ Quiet /\ Len(cases) = 0
       /\ test_case(CaseInputs[1].name, CaseInputs[1].case_id,
                    CaseInputs[1].tags, CaseInputs[1].description)
    \/ \E i \in DOMAIN cases : Quiet /\ cases[i].enters = 0 /\ Case_aenter(i)
    \/ \E i \in DOMAIN cases :
           /\ Quiet
           /\ cases[i].exits = 0
           /\ Case_aexit(i, Travelling(i), Travelling(i) = NoExc, "none")
    \/ \E i \in DOMAIN cases, u \in Urls, err \in DriverOutcomes,
          response \in Responses, timing \in TimingOutcomes :
           /\ Proceeds(i)
           /\ err # NoExc => (response = 0 /\ timing = "null")
           /\ navigate(i, u, err, response, timing)
    \/ \E i \in DOMAIN cases, selector \in ClickSelectors, err \in DriverOutcomes :
           Proceeds(i) /\ click(i, selector, err)
    \/ \E i \in DOMAIN cases, selector \in FillSelectors, value \in FillValues,
          sensitive \in BOOLEAN, outcome \in FillOutcomes :
           Proceeds(i) /\ fill(i, selector, value, sensitive, outcome)
    \/ \E i \in DOMAIN cases, selector \in TextSelectors, err \in DriverOutcomes :
           Proceeds(i) /\ assert_visible(i, selector, err)
    \/ \E i \in DOMAIN cases, selector \in TextSelectors,
          expected \in Expectations, text \in Texts, err \in DriverOutcomes :
           /\ Proceeds(i)
           /\ err # NoExc => text = <<>>
           /\ assert_text(i, selector, expected, text, err)
    \/ \E i \in DOMAIN cases, selector \in CountSelectors,
          expected_count \in 0..MaxElements, actual \in 0..MaxElements,
          err \in DriverOutcomes :
           /\ Proceeds(i)
           /\ err # NoExc => actual = 0
           /\ assert_count(i, selector, expected_count, actual, err)
    \/ \E i \in DOMAIN cases, pattern \in UrlPatterns :
           Proceeds(i) /\ assert_url(i, pattern)
    \/ \E i \in DOMAIN cases, c \in CustomActions :
           /\ Proceeds(i)
           /\ custom_action(i, 0, c.action_type, c.selector, c.extra_attrs)
    \/ \E b \in suspended.blocks : custom_set_status(b, "OK", "")
    \/ \E b \in suspended.blocks, a \in CustomAttributes :
           custom_set_attribute(b, a.key, a.value)
    \/ \E b \in suspended.blocks, err \in {NoExc} \cup Failures :
           custom_exit(b, err)
    \/ \E i \in DOMAIN cases, a \in CustomAttributes :
           Quiet /\ SuiteOpen /\ Case_set_attribute(i, a.key, a.value)
    \/ \E r \in suspended.actions : ActionResume(r)

SpecAction == Init /\ [][NextAction]_vars

\* the suite's scope is over: __aexit__ returned or raised, or __aenter__
\* raised
ScopeOver ==
    \/ calls.exits >= 1
    \/ suite_span # 0 /\ suspended.suite = "" /\ calls.enters = 0

\* One `async with InstrumentedBrowser(...)` whose driver may fail to
\* acquire or to release the browser session; the test cases run one at a
\* time inside the body, each entered and left once, and the caller lets
\* the failure of a test case leave the suite body or catches it.
NextSession ==
    \/ Quiet /\ suite_span = 0 /\ Suite_aenter
    \/ Suite_aenter_resume
    \/ Suite_aenter_raises
    \/ Quiet /\ SuiteOpen /\ NoneOpen /\ Suite_aexit
    \/ Suite_aexit_resume
    \/ \E fault \in ReleaseSteps : Suite_aexit_raises(fault)
    \/ /\ Quiet /\ SuiteOpen /\ NoneOpen
       /\ test_case(CaseInputs[(total % Len(CaseInputs)) + 1].name,
                    CaseInputs[(total % Len(CaseInputs)) + 1].case_id,
                    CaseInputs[(total % Len(CaseInputs)) + 1].tags,
                    CaseInputs[(total % Len(CaseInputs)) + 1].description)
    \/ \E i \in DOMAIN cases : Quiet /\ cases[i].enters = 0 /\ Case_aenter(i)
    \/ \E i \in DOMAIN cases, e \in {NoExc} \cup Failures, caught \in BOOLEAN :
           /\ Quiet
           /\ cases[i].exits = 0
           /\ Case_aexit(i, e, caught, "none")
    \/ \E i \in DOMAIN cases, u \in Urls :
           Quiet /\ cases[i].enters > cases[i].exits /\ PageGoto(i, u)

SpecSession == Init /\ [][NextSession]_vars

\* Test cases of one suite that are open at the same time, as when each
\* runs in a task of its own: the factory is called for every test case
\* before the first is entered, each test case is entered and left once, in
\* any order, clicks are made on the open test cases, and a failure of a
\* click leaves the test case it was called on, where its task catches it.
\* While the click of one task waits for the driver the other tasks run;
\* the suite is left when every task is done.
NextInterleave ==
    \/ Quiet /\ suite_span = 0 /\ Suite_aenter
    \/ Suite_aenter_resume
    \/ Quiet /\ calls.exits = 0 /\ NoneOpen /\ Suite_aexit
    \/ Suite_aexit_resume
    \/ /\ SuiteOpen /\ suspended.suite = ""
       /\ \A i \in DOMAIN cases : cases[i].enters = 0
       /\ test_case(CaseInputs[(total % Len(CaseInputs)) + 1].name,
                    CaseInputs[(total % Len(CaseInputs)) + 1].case_id,
                    CaseInputs[(total % Len(CaseInputs)) + 1].tags,
                    CaseInputs[(total % Len(CaseInputs)) + 1].description)
    \/ \E i \in DOMAIN cases :
           suspended.suite = "" /\ cases[i].enters = 0 /\ Case_aenter(i)
    \/ \E i \in DOMAIN cases :
           /\ suspended.suite = ""
           /\ cases[i].exits = 0
           /\ \A r \in suspended.actions : r.case # i
           /\ Case_aexit(i, Travelling(i), TRUE, "none")
    \/ \E i \in DOMAIN cases, selector \in ClickSelectors, err \in DriverOutcomes :
           /\ suspended.suite = ""
           /\ cases[i].enters > cases[i].exits
           /\ Travelling(i) = NoExc
           /\ Len(acts) + Cardinality(suspended.actions) <= MaxActions
           /\ click(i, selector, err)
    \/ \E r \in suspended.actions : ActionResume(r)

SpecInterleave == Init /\ [][NextInterleave]_vars

\* suites per process
MaxSuites == 2

\* A process that runs suites one after the other, as a test session does
\* with one InstrumentedBrowser per module: each suite is entered and left
\* once, its test cases run one at a time inside it, each entered and left
\* once, and a test case may click once; the caller catches what leaves a
\* test case.
NextProcess ==
    \/ Quiet /\ suite_span = 0 /\ Suite_aenter
    \/ Suite_aenter_resume
    \/ Quiet /\ calls.exits = 0 /\ NoneOpen /\ Suite_aexit
    \/ Suite_aexit_resume
    \/ Quiet /\ calls.exits = 1 /\ process.instance < MaxSuites /\ Browser_init
    \/ /\ Quiet /\ SuiteOpen /\ NoneOpen
       /\ test_case(CaseInputs[(total % Len(CaseInputs)) + 1].name,
                    CaseInputs[(total % Len(CaseInputs)) + 1].case_id,
                    CaseInputs[(total % Len(CaseInputs)) + 1].tags,
                    CaseInputs[(total % Len(CaseInputs)) + 1].description)
    \/ \E i \in DOMAIN cases : Quiet /\ cases[i].enters = 0 /\ Case_aenter(i)
    \/ \E i \in DOMAIN cases, e \in {NoExc} \cup Failures :
           /\ Quiet
           /\ cases[i].exits = 0
           /\ Travelling(i) # NoExc => e = Travelling(i)
           /\ Case_aexit(i, e, TRUE, "none")
    \/ \E i \in DOMAIN cases, selector \in ClickSelectors, err \in DriverOutcomes :
           /\ Quiet
           /\ cases[i].enters > cases[i].exits
           /\ Travelling(i) = NoExc
           /\ click(i, selector, err)
    \/ \E r \in suspended.actions : ActionResume(r)

SpecProcess == Init /\ [][NextProcess]_vars

\* The coroutines of one event loop without an order among them: whenever
\* a call waits (the suite's __aenter__ or __aexit__, or an action), any
\* other call may run.  A test case may be asked for while the suite's
\* __aenter__ waits and then has no page; a test case may run while the
\* suite's __aexit__ waits, after the root span was ended; a test case may
\* leave its scope while one of its actions waits.
NextTasks ==
    \/ suite_span = 0 /\ Suite_aenter
    \/ Suite_aenter_resume
    \/ Suite_aenter_raises
    \/ calls.exits = 0 /\ Suite_aexit
    \/ Suite_aexit_resume
    \/ \E fault \in ReleaseSteps : Suite_aexit_raises(fault)
    \/ test_case(CaseInputs[(total % Len(CaseInputs)) + 1].name,
                 CaseInputs[(total % Len(CaseInputs)) + 1].case_id,
                 CaseInputs[(total % Len(CaseInputs)) + 1].tags,
                 CaseInputs[(total % Len(CaseInputs)) + 1].description)
    \/ \E i \in DOMAIN cases : cases[i].enters = 0 /\ Case_aenter(i)
    \/ \E i \in DOMAIN cases :
           cases[i].exits = 0 /\ Case_aexit(i, Travelling(i), TRUE, "none")
    \/ \E i \in DOMAIN cases, selector \in ClickSelectors, err \in DriverOutcomes :
           /\ cases[i].enters > cases[i].exits
           /\ click(i, selector, err)
    \/ \E r \in suspended.actions : ActionResume(r)
    \/ \E i \in DOMAIN cases, within \in {0} \cup DOMAIN spans :
           custom_action(i, within, "extract_metadata", <<>>, NoAttrs)
    \/ \E b \in suspended.blocks : custom_set_status(b, "OK", "")
    \/ \E b \in suspended.blocks, err \in {NoExc} \cup Failures :
           custom_exit(b, err)
    \/ \E i \in DOMAIN cases, a \in CustomAttributes :
           Case_set_attribute(i, a.key, a.value)

SpecTasks == Init /\ [][NextTasks]_vars

\* redact_if_needed on every selector, value and flag of the model
InitRedact ==
    /\ suite_span = 0
    /\ page = 0
    /\ total = 0
    /\ passed = 0
    /\ failed = 0
    /\ spans = <<>>
    /\ cases = <<>>
    /\ url = <<>>
    /\ calls = NoCalls
    /\ pending = NoPending
    /\ logs = <<>>
    /\ redaction \in [selector : Selectors, value : Values,
                       sensitive : BOOLEAN, result : {""}, state : {"called"}]
    /\ acts = <<>>
    /\ config = NoConfig
    /\ process = NoProcess
    /\ suspended = NoSuspended

NextRedact == Redact

SpecRedact == InitRedact /\ [][NextRedact]_vars

\* SmokeshowConfig on every combination of arguments and environment
InitConfig ==
    /\ suite_span = 0
    /\ page = 0
    /\ total = 0
    /\ passed = 0
    /\ failed = 0
    /\ spans = <<>>
    /\ cases = <<>>
    /\ url = <<>>
    /\ calls = NoCalls
    /\ pending = NoPending
    /\ logs = <<>>
    /\ redaction = NoRedaction
    /\ acts = <<>>
    /\ config \in [state : {"called"}, args : ConfigArgs, env : ConfigEnvs]
    /\ process = NoProcess
    /\ suspended = NoSuspended

\* one construction of SmokeshowConfig
Construct ==
    /\ config.state = "called"
    /\ config' = [state |-> "returned", args |-> config.args,
                  env |-> config.env,
                  fields |-> SmokeshowConfig(config.args, config.env)]
    /\ UNCHANGED <<suite_span, page, total, passed, failed, spans, cases,
                   url, calls, pending, logs, redaction, acts, process,
                   suspended>>

NextConfig == Construct

SpecConfig == InitConfig /\ [][NextConfig]_vars

(***************************************************************************)
(* The claims.                                                             *)
(***************************************************************************)
\* test cases 1..n that were exited once, without a failure (ok) or with one
RECURSIVE Outcomes(_, _)
Outcomes(n, ok) ==
    IF n = 0 THEN 0
    ELSE Outcomes(n - 1, ok)
         + (IF cases[n].exits = 1 /\ ((cases[n].exc_val = NoExc) <=> ok)
            THEN 1 ELSE 0)

\* every test case was created within the suite and entered and exited once
EachOnce ==
    /\ calls.early = 0
    /\ \A i \in DOMAIN cases : cases[i].enters = 1 /\ cases[i].exits = 1

\* C1: when the suite exits after N test cases that were each created,
\* entered and exited once, P without and F with a failure, the root span
\* gets total_tests = N, passed = P, failed = F, and result is 'passed' iff
\* F = 0, 'failed' iff P = 0 and F > 0, 'partial' otherwise.
C1_SuiteTotals ==
    [][(calls.exits = 0 /\ calls'.exits = 1 /\ EachOnce) =>
        LET a == spans'[suite_span].attrs
            N == Len(cases)
            P == Outcomes(Len(cases), TRUE)
            F == Outcomes(Len(cases), FALSE)
        IN  /\ P + F = N
            /\ a["test.suite.total_tests"] = N
            /\ a["test.suite.passed"] = P
            /\ a["test.suite.failed"] = F
            /\ (a["test.suite.result"] = "passed") <=> (F = 0)
            /\ (a["test.suite.result"] = "failed") <=> (P = 0 /\ F > 0)
            /\ (a["test.suite.result"] = "partial") <=> (P > 0 /\ F > 0)
            /\ a["test.suite.result"] \in {"passed", "failed", "partial"}]_vars

\* a suite closed after one passing and one failing case: 'partial'
C1_Witness ==
    /\ calls.exits = 1
    /\ EachOnce
    /\ Len(cases) = 2
    /\ Outcomes(2, TRUE) = 1
    /\ Outcomes(2, FALSE) = 1
    /\ spans[suite_span].attrs["test.suite.result"] = "partial"

\* C2: a failure of the body of a test case leaves the test-case scope as
\* the same failure (same identity, same message) after the span was
\* ended; it is neither suppressed nor replaced.
C2_Reraised ==
    \A i \in DOMAIN cases :
        (cases[i].exits >= 1 /\ cases[i].exc_val # NoExc) =>
            /\ cases[i].escaped = cases[i].exc_val
            /\ cases[i].escaped.id = cases[i].exc_val.id
            /\ cases[i].escaped.msg = cases[i].exc_val.msg
            /\ spans[cases[i].case_span].ends >= 1

C2_Witness ==
    \E i \in DOMAIN cases :
        /\ cases[i].exits = 1
        /\ cases[i].exc_val.msg = "boom"
        /\ cases[i].escaped.msg = "boom"

\* C3: a test case whose body raises ends with one closed span that has
\* result = 'failed', a non-empty failure_reason equal to the failure's
\* message, a failure_url and status error with the failure's message, for
\* every failure the body can raise.
C3_FailedSpan ==
    \A i \in DOMAIN cases :
        (cases[i].enters = 1 /\ cases[i].exits = 1 /\ cases[i].exc_val # NoExc) =>
            LET s == spans[cases[i].case_span]
            IN  /\ s.ends = 1
                /\ s.attrs["test.case.result"] = "failed"
                /\ s.attrs["test.case.failure_reason"] = cases[i].exc_val.msg
                /\ s.attrs["test.case.failure_reason"] # ""
                /\ s.attrs["test.case.failure_url"] \in Urls
                /\ s.status = "ERROR"
                /\ s.description = cases[i].exc_val.msg

\* C4: every exit of a test-case scope reports exactly one outcome to the
\* aggregator: passed (with result = 'passed' and status OK stamped on the
\* span this exit closes) iff the body raised nothing, failed otherwise.
C4_OneReport ==
    [][\A i \in DOMAIN cases :
        (cases'[i].exits = cases[i].exits + 1) =>
            LET before == spans[cases[i].case_span]
                after == spans'[cases[i].case_span]
            IN  IF cases'[i].exc_val = NoExc
                THEN /\ passed' = passed + 1
                     /\ failed' = failed
                     /\ before.ends = 0 =>
                            /\ after.attrs["test.case.result"] = "passed"
                            /\ after.status = "OK"
                ELSE /\ failed' = failed + 1
                     /\ passed' = passed
                     /\ before.ends = 0 =>
                            /\ after.attrs["test.case.result"] = "failed"
                            /\ after.status = "ERROR"]_vars

\* one case reported as passed and another as failed
C4_Witness ==
    /\ passed = 1
    /\ failed = 1
    /\ \E i, j \in DOMAIN cases :
          /\ cases[i].exits = 1 /\ cases[i].exc_val = NoExc
          /\ spans[cases[i].case_span].status = "OK"
          /\ cases[j].exits = 1 /\ cases[j].exc_val # NoExc
          /\ spans[cases[j].case_span].status = "ERROR"

\* C5: the span of every test case that was entered is ended exactly once
\* by the exit of its scope, whatever happens in the exit steps before the
\* span's end.
C5_EndedOnExit ==
    \A i \in DOMAIN cases :
        (cases[i].enters = 1 /\ cases[i].exits = 1) =>
            spans[cases[i].case_span].ends = 1

\* C6: however often __aexit__ is called on one test case or one suite, the
\* span's end is performed once, the aggregator is notified once per test
\* case, and the suite releases the browser session and flushes once.
C6_NoDoubleClose ==
    /\ \A k \in DOMAIN spans : spans[k].ends <= 1
    /\ passed + failed <= Cardinality({i \in DOMAIN cases : cases[i].exits >= 1})
    /\ Cardinality({k \in DOMAIN calls.effects :
                       calls.effects[k] = "browser_close"}) <= 1
    /\ Cardinality({k \in DOMAIN calls.effects :
                       calls.effects[k] = "force_flush_spans"}) <= 1

\* C7: when the suite body raised, the suite's exit writes the four
\* attributes, ends the root span, closes the browser, stops the driver,
\* flushes the spans and then the logs, in this order, and the failure
\* leaves the suite scope afterwards.
C7_FlushOnFailure ==
    (calls.exits = 1 /\ calls.exc_val # NoExc) =>
        LET root == spans[suite_span]
        IN  /\ {"test.suite.total_tests", "test.suite.passed",
                "test.suite.failed", "test.suite.result"} \subseteq DOMAIN root.attrs
            /\ root.ends = 1
            /\ Len(calls.effects) = 6
            /\ calls.effects[1] = "set_attributes"
            /\ calls.effects[2] = "end"
            /\ calls.effects[3] = "browser_close"
            /\ calls.effects[4] = "playwright_stop"
            /\ calls.effects[5] = "force_flush_spans"
            /\ calls.effects[6] = "force_flush_logs"
            /\ calls.escaped = calls.exc_val

\* a suite whose body raised outside every test case, closed
C7_Witness ==
    /\ calls.exits = 1
    /\ calls.exc_val.msg = "boom"
    /\ calls.from = 0
    /\ calls.escaped.msg = "boom"
    /\ Len(calls.effects) = 6

\* C8: a failure that left a test-case scope uncaught leaves the suite
\* scope unchanged, no test case is created or entered while it travels,
\* and the root span's failed count includes the failing case, so that the
\* result is not 'passed'.
C8_NotCaught ==
    /\ [](\A i \in DOMAIN cases :
            (calls.exits = 1 /\ calls.from = i) =>
                /\ calls.exc_val # NoExc
                /\ calls.escaped = calls.exc_val
                /\ cases[i].exits >= 1
                /\ spans[suite_span].attrs["test.suite.failed"] >= 1
                /\ spans[suite_span].attrs["test.suite.result"] # "passed")
    /\ [][pending # NoPending =>
            /\ Len(cases') = Len(cases)
            /\ total' = total
            /\ \A i \in DOMAIN cases : cases'[i].enters = cases[i].enters
            /\ pending' \in {pending, NoPending}]_vars

\* the failure of the first case reached the caller of the suite
C8_Witness ==
    /\ calls.exits = 1
    /\ calls.from = 1
    /\ calls.escaped = cases[1].exc_val
    /\ calls.escaped # NoExc
    /\ spans[suite_span].attrs["test.suite.result"] = "failed"

\* C9: a call of the factory adds exactly one to total, when the case is
\* created and before it is entered, and leaves passed and failed alone;
\* passed and failed change only in an exit of a test case, which adds one
\* to exactly one of them and leaves total alone.
C9_CounterFrames ==
    [][/\ (Len(cases') = Len(cases) + 1 \/ calls'.early = calls.early + 1) =>
            /\ total' = total + 1
            /\ passed' = passed
            /\ failed' = failed
       /\ Len(cases') = Len(cases) + 1 =>
            /\ cases'[Len(cases')].enters = 0
            /\ cases'[Len(cases')].exits = 0
            /\ cases'[Len(cases')].case_span = 0
       /\ total' # total =>
            (Len(cases') = Len(cases) + 1 \/ calls'.early = calls.early + 1)
       /\ (passed' # passed \/ failed' # failed) =>
            /\ \E i \in DOMAIN cases : cases'[i].exits = cases[i].exits + 1
            /\ \/ passed' = passed + 1 /\ failed' = failed
               \/ failed' = failed + 1 /\ passed' = passed
            /\ total' = total]_vars

\* a case counted in total before it was entered, and an outcome counted
C9_Witness ==
    /\ total = 2
    /\ passed + failed = 1
    /\ Len(cases) = 2
    /\ cases[2].enters = 0

\* the words of the claim
ClaimWords == {
    <<"p", "a", "s", "s", "w", "o", "r", "d">>,
    <<"p", "a", "s", "s", "w", "d">>,
    <<"c", "a", "r", "d">>,
    <<"c", "v", "v">>,
    <<"s", "s", "n">>,
    <<"c", "r", "e", "d", "i", "t">>,
    <<"s", "e", "c", "r", "e", "t">>,
    <<"t", "o", "k", "e", "n">>}

FoldAll(w) == [k \in 1..Len(w) |-> Fold(w[k])]

\* the selector contains one of the words as a substring, in any letter case
ContainsWord(selector) ==
    \E w \in ClaimWords, p \in 1..Len(selector) :
        /\ p + Len(w) - 1 <= Len(selector)
        /\ FoldAll(SubSeq(selector, p, p + Len(w) - 1)) = w

\* C10: redact_if_needed returns '[REDACTED]' for every selector that
\* contains one of the eight words in any letter case, whatever the flag,
\* and for every selector when the flag is true; otherwise the value.
C10_Redaction ==
    redaction.state = "returned" =>
        /\ ContainsWord(redaction.selector) => redaction.result = "[REDACTED]"
        /\ redaction.sensitive => redaction.result = "[REDACTED]"
        /\ (~ContainsWord(redaction.selector) /\ ~redaction.sensitive) =>
               redaction.result = redaction.value

\* 'input' + 'PassWord' with the flag false
C10_Witness ==
    /\ redaction.state = "returned"
    /\ redaction.selector = <<"i", "n", "p", "u", "t", "P", "a", "s", "s", "W", "o", "r", "d">>
    /\ ~redaction.sensitive
    /\ redaction.value = "secret123"
    /\ redaction.result = "[REDACTED]"

\* C11: a fill action records test.action.input_value as '[REDACTED]' when
\* the flag is true or the selector contains a sensitive word and as the
\* value otherwise, hands the original value to the driver's fill, and has
\* the attribute on its span also when the driver's fill raised.
C11_FillRedaction ==
    \A k \in DOMAIN acts :
        acts[k].op = "fill" =>
            LET a == acts[k].args
                s == spans[acts[k].span]
            IN  /\ "test.action.input_value" \in DOMAIN s.attrs
                /\ s.attrs["test.action.input_value"] =
                       IF a.sensitive \/ ContainsWord(a.selector)
                       THEN "[REDACTED]" ELSE a.value
                /\ Len(acts[k].driver) = 1
                /\ acts[k].driver[1].op = "fill"
                /\ acts[k].driver[1].args[2] = a.value

\* fill('input#password', 'secret123') whose driver call failed
C11_Witness ==
    \E k \in DOMAIN acts :
        /\ acts[k].op = "fill"
        /\ spans[acts[k].span].name = "fill(input#password)"
        /\ ~acts[k].args.sensitive
        /\ acts[k].raised = DriverError
        /\ spans[acts[k].span].attrs["test.action.input_value"] = "[REDACTED]"
        /\ acts[k].driver[1].args = <<"input#password", "secret123">>

\* expected occurs in text at some position, letter case aside
OccursFolded(expected, text) ==
    \E p \in 0..Len(text) :
        /\ p + Len(expected) <= Len(text)
        /\ \A j \in 1..Len(expected) : Fold(expected[j]) = Fold(text[p + j])

\* C12: when the element's text was read, assert_text returns with result =
\* success and status OK if the expected string occurs in the text, letter
\* case aside; otherwise it sets result = failed and status error and raises
\* an AssertionError "Expected '<expected>' in '<actual>'" with both strings
\* in their original letter case.
C12_AssertText ==
    \A k \in DOMAIN acts :
        (acts[k].op = "assert_text" /\ Len(acts[k].driver) = 2) =>
            LET a == acts[k].args
                s == spans[acts[k].span]
            IN  IF OccursFolded(a.expected, a.text)
                THEN /\ acts[k].raised = NoExc
                     /\ s.attrs["test.action.result"] = "success"
                     /\ s.status = "OK"
                ELSE /\ acts[k].raised.type = "AssertionError"
                     /\ acts[k].raised.msg =
                            "Expected '" \o Str(a.expected) \o "' in '"
                                \o Str(a.text) \o "'"
                     /\ s.attrs["test.action.result"] = "failed"
                     /\ s.status = "ERROR"

\* assert_text('h1', 'WORLD') on the text 'hello'
C12_Witness ==
    \E k \in DOMAIN acts :
        /\ acts[k].op = "assert_text"
        /\ acts[k].raised.msg = "Expected 'WORLD' in 'hello'"
        /\ spans[acts[k].span].attrs["test.action.result"] = "failed"

\* C13: when the elements were counted, assert_count returns with result =
\* success and status OK if their number equals the expected count;
\* otherwise it sets result = failed and status error and raises an
\* AssertionError "Expected <expected> elements matching '<selector>', got
\* <actual>".
C13_AssertCount ==
    \A k \in DOMAIN acts :
        (acts[k].op = "assert_count" /\ acts[k].raised # DriverError) =>
            LET a == acts[k].args
                s == spans[acts[k].span]
            IN  IF a.actual = a.expected_count
                THEN /\ acts[k].raised = NoExc
                     /\ s.attrs["test.action.result"] = "success"
                     /\ s.status = "OK"
                ELSE /\ acts[k].raised.type = "AssertionError"
                     /\ acts[k].raised.msg =
                            "Expected " \o ToString(a.expected_count)
                                \o " elements matching '" \o Str(a.selector)
                                \o "', got " \o ToString(a.actual)
                     /\ s.attrs["test.action.result"] = "failed"
                     /\ s.status = "ERROR"

\* assert_count('li', 2) with one element on the page
C13_Witness ==
    \E k \in DOMAIN acts :
        /\ acts[k].op = "assert_count"
        /\ acts[k].raised.msg = "Expected 2 elements matching 'li', got 1"
        /\ spans[acts[k].span].status = "ERROR"

\* pattern occurs in the characters of the location at some position
Occurs(pattern, chars) ==
    \E p \in 0..Len(chars) :
        /\ p + Len(pattern) <= Len(chars)
        /\ \A j \in 1..Len(pattern) : pattern[j] = chars[p + j]

\* C14: assert_url returns with result = success and status OK if the
\* pattern occurs in the page's URL; otherwise it sets result = failed and
\* status error and raises an AssertionError "Expected '<pattern>' in URL,
\* got <url>"; its span is named 'assert_url' and has no selector.
C14_AssertUrl ==
    \A k \in DOMAIN acts :
        acts[k].op = "assert_url" =>
            LET a == acts[k].args
                s == spans[acts[k].span]
            IN  /\ s.name = "assert_url"
                /\ "test.action.selector" \notin DOMAIN s.attrs
                /\ IF Occurs(a.pattern, Chars(a.page_url))
                   THEN /\ acts[k].raised = NoExc
                        /\ s.attrs["test.action.result"] = "success"
                        /\ s.status = "OK"
                   ELSE /\ acts[k].raised.type = "AssertionError"
                        /\ acts[k].raised.msg =
                               "Expected '" \o Str(a.pattern)
                                   \o "' in URL, got " \o a.page_url
                        /\ s.attrs["test.action.result"] = "failed"
                        /\ s.status = "ERROR"

\* assert_url('/arc/') on the start page
C14_Witness ==
    \E k \in DOMAIN acts :
        /\ acts[k].op = "assert_url"
        /\ acts[k].raised.msg =
               "Expected '/arc/' in URL, got http://localhost:8080/"
        /\ spans[acts[k].span].status = "ERROR"

TimingAttributes == {"test.navigation.dom_content_loaded_ms",
                     "test.navigation.load_event_ms",
                     "test.navigation.transfer_size_bytes",
                     "test.navigation.dom_interactive_ms"}

\* C15: a navigate whose page.goto returned and whose timing collection
\* raised returns normally, with status OK and none of the four timing
\* attributes, and no failure travels to the test case; a navigate whose
\* page.goto raised raises that failure and its span is not OK.
C15_NavigateTiming ==
    \A k \in DOMAIN acts :
        acts[k].op = "navigate" =>
            LET a == acts[k].args
                s == spans[acts[k].span]
            IN  /\ (a.goto_err = NoExc /\ a.timing = "raises") =>
                       /\ acts[k].raised = NoExc
                       /\ s.status = "OK"
                       /\ TimingAttributes \cap DOMAIN s.attrs = {}
                       /\ k = Len(acts) => Travelling(acts[k].case) = NoExc
                /\ (a.goto_err = NoExc /\ a.timing = "timing") =>
                       /\ acts[k].raised = NoExc
                       /\ TimingAttributes \subseteq DOMAIN s.attrs
                /\ a.goto_err # NoExc =>
                       /\ acts[k].raised = a.goto_err
                       /\ s.status # "OK"

\* a navigation that got a response and no timing
C15_Witness ==
    \E k \in DOMAIN acts :
        /\ acts[k].op = "navigate"
        /\ acts[k].args.timing = "raises"
        /\ acts[k].args.response = 200
        /\ acts[k].raised = NoExc
        /\ spans[acts[k].span].status = "OK"
        /\ spans[acts[k].span].attrs["test.navigation.response_status"] = 200
        /\ acts[k].driver[2].op = "evaluate"

\* C16: every call of an instrumented action started one span and ended it
\* once (every action span belongs to a call that returned or raised, to a
\* call that waits for the driver or to a custom block whose body runs); a
\* failure of the driver or of an assertion left the call as it was raised
\* and set the span's status to ERROR, with the attributes written before it
\* on the ended span, and
\* when the call was made in the body of an open test case it is the
\* failure with which that test case exits, as failed.
C16_ActionSpanClosed ==
    /\ Cardinality({j \in DOMAIN spans : spans[j].kind = "action"})
           = Len(acts) + Cardinality(suspended.actions)
                 + Cardinality(suspended.blocks)
    /\ \A k \in DOMAIN acts :
          LET s == spans[acts[k].span]
              i == acts[k].case
          IN  /\ s.kind = "action"
              /\ s.ends = 1
              /\ \A l \in DOMAIN acts : acts[l].span = acts[k].span => l = k
              /\ acts[k].op # "action_span" =>
                    "test.action.page_url" \in DOMAIN s.attrs
              /\ acts[k].raised # NoExc =>
                    /\ s.exception = acts[k].raised
                    /\ acts[k].op # "action_span" => s.status = "ERROR"
                    /\ acts[k].op = "fill" =>
                           "test.action.input_value" \in DOMAIN s.attrs
                    /\ (acts[k].raised.type = "AssertionError"
                           /\ acts[k].op # "action_span") =>
                           s.attrs["test.action.result"] = "failed"
                    /\ (acts[k].open /\ cases[i].exits = acts[k].exits) =>
                           Travelling(i) = acts[k].raised
                    /\ (acts[k].open /\ cases[i].exits = acts[k].exits + 1) =>
                           /\ cases[i].exc_val = acts[k].raised
                           /\ cases[i].escaped = acts[k].raised
                           /\ spans[cases[i].case_span].attrs["test.case.result"]
                                  = "failed"
                           /\ failed = 1 /\ passed = 0

\* a click whose driver call timed out in an open test case, which then
\* closed as failed
C16_Witness ==
    \E k \in DOMAIN acts :
        /\ acts[k].op = "click"
        /\ acts[k].open
        /\ acts[k].raised = DriverError
        /\ spans[acts[k].span].ends = 1
        /\ cases[acts[k].case].exits = 1
        /\ cases[acts[k].case].exc_val = DriverError
        /\ spans[cases[acts[k].case].case_span].status = "ERROR"
        /\ failed = 1

\* C17: spans are ended in the reverse order of their nesting: whenever a
\* span is ended, its parent span is still open and none of its child
\* spans is open (an action span before its test case's span, a test-case
\* span before the root span).
C17_LifoClose ==
    [][\A k \in DOMAIN spans' :
          (IF k \in DOMAIN spans
           THEN spans'[k].ends > spans[k].ends
           ELSE spans'[k].ends > 0) =>
              /\ spans'[k].parent # 0 => spans[spans'[k].parent].ends = 0
              /\ \A j \in DOMAIN spans :
                     spans[j].parent = k => spans[j].ends >= 1]_vars

\* the ids of the model's spans as format() prints them
Hex32 == <<"00000000000000000000000000000001",
           "00000000000000000000000000000002",
           "00000000000000000000000000000003",
           "00000000000000000000000000000004",
           "00000000000000000000000000000005",
           "00000000000000000000000000000006">>

Hex16 == <<"0000000000000001", "0000000000000002", "0000000000000003",
           "0000000000000004", "0000000000000005", "0000000000000006">>

\* C18: an exit of a test case hands one record to the error log if the
\* body raised and the case has a logger, and none otherwise; the record
\* names the case by its case id when that is non-empty and by its name
\* otherwise and carries the suite name, the failure's message, the page's
\* URL and the trace id and span id of the case's own span; no other
\* operation writes to the log.
C18_ErrorLog ==
    [][/\ \A i \in DOMAIN cases :
            (cases'[i].exits = cases[i].exits + 1) =>
                IF cases'[i].exc_val # NoExc /\ cases[i].logger
                THEN /\ Len(logs') = Len(logs) + 1
                     /\ SubSeq(logs', 1, Len(logs)) = logs
                     /\ LET r == logs'[Len(logs')]
                        IN  /\ r.label = IF cases[i].case_id # ""
                                         THEN cases[i].case_id
                                         ELSE cases[i].name
                            /\ r.suite = cases[i].suite_name
                            /\ r.msg = cases'[i].exc_val.msg
                            /\ r.url = url[cases[i].page]
                            /\ r.trace_id = Hex32[suite_span]
                            /\ r.span_id = Hex16[cases[i].case_span]
                            /\ spans[cases[i].case_span].parent = suite_span
                ELSE logs' = logs
       /\ (\A i \in DOMAIN cases : cases'[i].exits = cases[i].exits) =>
            logs' = logs]_vars

\* a failed case without a logger left no record, a failed case without a
\* case id left one under its name, and a passed case left none
C18_Witness ==
    /\ Len(cases) = 2
    /\ cases[1].exits = 1 /\ cases[1].exc_val.msg = "boom" /\ ~cases[1].logger
    /\ cases[2].exits = 1 /\ cases[2].exc_val.msg = "boom" /\ cases[2].logger
    /\ cases[2].case_id = "" /\ cases[2].name = "logout"
    /\ Len(logs) = 1
    /\ logs[1].label = "logout"
    /\ logs[1].url = "http://localhost:8080/fail"
    /\ logs[1].span_id = "0000000000000003"

\* C19: once the suite has exited, total, passed and failed equal the
\* values written on the root span, and no operation changes them.
C19_FinalizedTotals ==
    /\ [](calls.exits >= 1 =>
            /\ total = spans[suite_span].attrs["test.suite.total_tests"]
            /\ passed = spans[suite_span].attrs["test.suite.passed"]
            /\ failed = spans[suite_span].attrs["test.suite.failed"])
    /\ [][calls.exits >= 1 =>
            /\ total' = total
            /\ passed' = passed
            /\ failed' = failed]_vars

\* C20: for every option, a value given to the constructor is the value of
\* the field, whatever the environment says (also headless given as true
\* while PLAYWRIGHT_OTEL_HEADLESS says false); an option that was not given
\* takes the value of its environment variable, or the built-in default
\* when the variable is unset.
C20_ConstructorWins ==
    config.state = "returned" =>
        /\ \A o \in EnvOptions :
               config.fields[o] =
                   IF config.args[o].given THEN config.args[o].value
                   ELSE IF config.env[o].set THEN config.env[o].value
                   ELSE EnvDefaults[o]
        /\ config.args.headless.given =>
               config.fields.headless = config.args.headless.value
        /\ (~config.args.headless.given /\ ~config.env.headless.set) =>
               config.fields.headless = TRUE
        /\ (~config.args.headless.given /\ config.env.headless.set) =>
               config.fields.headless =
                   (lower(config.env.headless.value) \notin HeadlessOff)

\* the mismatches of the three assertion actions: the calls that recorded
\* the result `failed`
Mismatches ==
    {k \in DOMAIN acts :
        /\ acts[k].op \in {"assert_text", "assert_count", "assert_url"}
        /\ "test.action.result" \in DOMAIN spans[acts[k].span].attrs
        /\ spans[acts[k].span].attrs["test.action.result"] = "failed"}

\* C30: on a mismatch in assert_text, assert_count or assert_url, the
\* message the action writes as the error status of its span is the same
\* string as the message of the AssertionError it raises.
C30_SameMessage ==
    \A k \in Mismatches :
        /\ acts[k].raised.type = "AssertionError"
        /\ acts[k].status_message = acts[k].raised.msg

\* C30 as the code has it: on a mismatch the action raises AssertionError;
\* assert_text writes the raised message as the status message, while
\* assert_count writes "Expected <n> elements, got <m>" and raises
\* "Expected <n> elements matching '<selector>', got <m>", and assert_url
\* writes "Expected '<pattern>' in URL '<url>'" and raises
\* "Expected '<pattern>' in URL, got <url>".
C30_StatusMessages ==
    \A k \in Mismatches :
        LET a == acts[k].args
        IN  /\ acts[k].raised.type = "AssertionError"
            /\ acts[k].op = "assert_text" =>
                   /\ acts[k].raised.msg =
                          "Expected '" \o Str(a.expected) \o "' in '"
                              \o Str(a.text) \o "'"
                   /\ acts[k].status_message = acts[k].raised.msg
            /\ acts[k].op = "assert_count" =>
                   /\ acts[k].raised.msg =
                          "Expected " \o ToString(a.expected_count)
                              \o " elements matching '" \o Str(a.selector)
                              \o "', got " \o ToString(a.actual)
                   /\ acts[k].status_message =
                          "Expected " \o ToString(a.expected_count)
                              \o " elements, got " \o ToString(a.actual)
            /\ acts[k].op = "assert_url" =>
                   /\ acts[k].raised.msg =
                          "Expected '" \o Str(a.pattern) \o "' in URL, got "
                              \o a.page_url
                   /\ acts[k].status_message =
                          "Expected '" \o Str(a.pattern) \o "' in URL '"
                              \o a.page_url \o "'"

\* assert_count("li", 2) found one element: the status message and the
\* raised message differ
C30_Witness ==
    \E k \in Mismatches :
        /\ acts[k].op = "assert_count"
        /\ acts[k].status_message = "Expected 2 elements, got 1"
        /\ acts[k].raised.msg = "Expected 2 elements matching 'li', got 1"
        /\ spans[acts[k].span].status = "ERROR"
        /\ spans[acts[k].span].ends = 1

\* the assertion of an assertion action holds for what the page showed
AssertionHolds(k) ==
    LET a == acts[k].args
    IN  CASE acts[k].op = "assert_visible" -> acts[k].raised = NoExc
          [] acts[k].op = "assert_text" ->
                 /\ Len(acts[k].driver) = 2
                 /\ OccursFolded(a.expected, a.text)
          [] acts[k].op = "assert_count" ->
                 /\ acts[k].raised # DriverError
                 /\ a.actual = a.expected_count
          [] acts[k].op = "assert_url" -> Occurs(a.pattern, Chars(a.page_url))
          [] OTHER -> TRUE

\* C22: the span of each of the seven actions has status OK exactly when
\* the action returned normally; an assertion action has status OK only
\* with result = success and only when its assertion holds; when the wait
\* of assert_visible fails, its span has neither result = success nor status
\* OK and the driver's failure is what the action raises.
C22_OkIffReturns ==
    \A k \in DOMAIN acts :
        LET s == spans[acts[k].span]
        IN  /\ acts[k].op \in {"navigate", "click", "fill", "assert_visible",
                               "assert_text", "assert_count", "assert_url"} =>
                   ((s.status = "OK") <=> (acts[k].raised = NoExc))
            /\ (s.status = "OK" /\ acts[k].op \in
                    {"assert_visible", "assert_text", "assert_count",
                     "assert_url"}) =>
                   /\ "test.action.result" \in DOMAIN s.attrs
                   /\ s.attrs["test.action.result"] = "success"
                   /\ AssertionHolds(k)
            /\ (acts[k].op = "assert_visible" /\ acts[k].raised # NoExc) =>
                   /\ "test.action.result" \notin DOMAIN s.attrs
                   /\ s.status = "ERROR"
                   /\ acts[k].raised = DriverError
                   /\ s.exception = DriverError
                   /\ Travelling(acts[k].case) \in {NoExc, DriverError}

\* the wait of assert_visible timed out in an open test case: the span is
\* ended with status ERROR and no result, and the timeout travels on
C22_Witness ==
    \E k \in DOMAIN acts :
        /\ acts[k].op = "assert_visible"
        /\ acts[k].open
        /\ acts[k].raised = DriverError
        /\ spans[acts[k].span].status = "ERROR"
        /\ spans[acts[k].span].ends = 1
        /\ "test.action.result" \notin DOMAIN spans[acts[k].span].attrs
        /\ Travelling(acts[k].case) = DriverError

\* the action type, the selector and the extra attributes with which the
\* action recorded as acts[k] called action_span
SpanCall(k) ==
    LET a == acts[k].args
    IN  CASE acts[k].op = "action_span" -> a
          [] acts[k].op = "navigate" ->
                 [action_type |-> "navigate", selector |-> <<>>,
                  extra_attrs |-> Put(NoAttrs, "test.action.target_url", a.url)]
          [] acts[k].op = "assert_url" ->
                 [action_type |-> "assert_url", selector |-> <<>>,
                  extra_attrs |-> NoAttrs]
          [] OTHER ->
                 [action_type |-> acts[k].op, selector |-> a.selector,
                  extra_attrs |-> NoAttrs]

\* C21: the span of action_span is named actionType when no selector is
\* given and actionType(selector) otherwise, has test.action.type equal to
\* the action type, has test.action.selector exactly when a selector is
\* present, carries every extra attribute under its own key with its own
\* value, has no other attribute than these and those the body of the
\* block wrote, and is ended once when the block is left, also by a failure,
\* which is recorded on it (with status ERROR unless the body had set the
\* status to OK) and goes on to the caller.
C21_ActionSpan ==
    \A k \in DOMAIN acts :
        LET c == SpanCall(k)
            s == spans[acts[k].span]
        IN  /\ s.name = IF c.selector = <<>> THEN c.action_type
                        ELSE c.action_type \o "(" \o Str(c.selector) \o ")"
            /\ s.attrs["test.action.type"] = c.action_type
            /\ ("test.action.selector" \in DOMAIN s.attrs) <=> (c.selector # <<>>)
            /\ c.selector # <<>> =>
                   s.attrs["test.action.selector"] = Str(c.selector)
            /\ \A key \in DOMAIN c.extra_attrs :
                   /\ key \in DOMAIN s.attrs
                   /\ s.attrs[key] = c.extra_attrs[key]
            /\ acts[k].op = "action_span" =>
                   DOMAIN s.attrs \ {a.key : a \in CustomAttributes} =
                       {"test.action.type"} \cup DOMAIN c.extra_attrs
                       \cup (IF c.selector # <<>>
                             THEN {"test.action.selector"} ELSE {})
            /\ s.ends = 1
            /\ acts[k].raised # NoExc =>
                   /\ s.exception = acts[k].raised
                   /\ s.status = "ERROR"
                          \/ (acts[k].op = "action_span" /\ s.status = "OK"
                                 /\ s.description = "")

\* a custom fill span with an extra attribute whose block raised: named
\* fill(input#email), custom_key = custom_val, ended with the failure on it
C21_Witness ==
    \E k \in DOMAIN acts :
        /\ acts[k].op = "action_span"
        /\ spans[acts[k].span].name = "fill(input#email)"
        /\ spans[acts[k].span].attrs["custom_key"] = "custom_val"
        /\ spans[acts[k].span].attrs["test.action.selector"] = "input#email"
        /\ acts[k].raised.msg = "boom"
        /\ spans[acts[k].span].ends = 1
        /\ spans[acts[k].span].description = "RuntimeError: boom"

\* test case i has left its scope and was not entered again
Closed(i) == cases[i].exits >= 1 /\ cases[i].enters <= cases[i].exits

\* C23: a test case is entered at most once and exits only while open;
\* once it is Closed no step writes to its case span or starts a span under
\* it, and every action that starts a span is called on a test case that is
\* Open (entered and not yet exited).
C23_ClosedImmutable ==
    [][/\ \A i \in DOMAIN cases :
              /\ cases'[i].enters > cases[i].enters => cases[i].enters = 0
              /\ Closed(i) =>
                    /\ cases'[i].case_span = cases[i].case_span
                    /\ spans'[cases[i].case_span] = spans[cases[i].case_span]
                    /\ \A j \in DOMAIN spans' \ DOMAIN spans :
                           spans'[j].parent # cases[i].case_span
       /\ \A k \in DOMAIN acts' \ DOMAIN acts :
              cases[acts'[k].case].enters > cases[acts'[k].case].exits]_vars

\* C24: in every reachable state passed + failed <= total, and no step
\* lowers total, passed or failed.
C24_CounterBound ==
    /\ [](passed + failed <= total)
    /\ [][/\ total' >= total
          /\ passed' >= passed
          /\ failed' >= failed]_vars

\* the records the handlers emitted for the record logs[j]
EmittedFor(j) == {e \in DOMAIN process.emitted : process.emitted[e].log = j}

\* the suites whose handler is on the shared logger, each named by the
\* number of its providers
Registered == {process.handlers[h] : h \in DOMAIN process.handlers}

\* the suite's __aenter__ has begun and waits for the browser session
Entering == \E n \in DOMAIN EnterAwaits : EnterAwaits[n] = suspended.suite

\* C26: one failed test case makes the handlers emit exactly one error log
\* record, however many suites were opened before in the process; the
\* handler a suite registered at entry is registered at most once and only
\* while that suite is open.
C26_HandlersDoNotAccumulate ==
    /\ \A j \in DOMAIN logs : Cardinality(EmittedFor(j)) = 1
    /\ Len(process.handlers) = Cardinality(Registered)
    /\ \A n \in Registered : n = process.own /\ (Entering \/ SuiteOpen)

\* the suite that started span k: the one whose root span heads k's trace
SuiteOf(k) == CHOOSE n \in DOMAIN process.roots : process.roots[n] = trace_id(k)

\* C27: every suite starts its spans through a tracer bound to its own
\* provider, so that each span lies with the provider of its suite, and
\* once a suite has exited every ended span of it was exported by the
\* forced flush of its provider.
C27_InstanceScopedTracer ==
    /\ \A n \in DOMAIN process.bound : process.bound[n] = n
    /\ \A k \in DOMAIN spans : ProviderOf(k) = SuiteOf(k)
    /\ calls.exits >= 1 =>
           \A k \in DOMAIN spans :
               (SuiteOf(k) = process.own /\ spans[k].ends > 0) =>
                   k \in process.flushed

\* C25: on every path on which the suite's scope is over (the exit ran, with
\* or without a failing release of the browser session, or the entry failed
\* after the root span was started) the root span is ended, and the spans
\* and the logs were flushed.
C25_FinalizedOnEveryPath ==
    (ScopeOver /\ suite_span # 0) =>
        /\ spans[suite_span].ends >= 1
        /\ suite_span \in process.flushed
        /\ \E j \in DOMAIN calls.effects : calls.effects[j] = "force_flush_spans"
        /\ \E j \in DOMAIN calls.effects : calls.effects[j] = "force_flush_logs"

\* C28: the span of every test case is a child of the root span of the suite
\* whose factory made it, and the span of every action is a child of the
\* span of the test case it was called on, whichever test case was entered
\* last and whichever spans are open; every exit of a test case adds one to
\* exactly one of passed and failed and leaves total and the other test
\* cases as they were.
C28_Parentage ==
    /\ [](/\ \A i \in DOMAIN cases :
                cases[i].case_span # 0 =>
                    /\ spans[cases[i].case_span].kind = "case"
                    /\ spans[cases[i].case_span].parent = cases[i].suite_ctx
                    /\ cases[i].suite_ctx = suite_span
                    /\ spans[suite_span].kind = "suite"
          /\ \A k \in DOMAIN acts :
                /\ spans[acts[k].span].kind = "action"
                /\ spans[acts[k].span].parent = cases[acts[k].case].case_span
                /\ trace_id(acts[k].span) = suite_span)
    /\ [][\A i \in DOMAIN cases :
              cases'[i].exits # cases[i].exits =>
                  /\ cases'[i].exits = cases[i].exits + 1
                  /\ total' = total
                  /\ IF cases'[i].exc_val = NoExc
                     THEN passed' = passed + 1 /\ failed' = failed
                     ELSE failed' = failed + 1 /\ passed' = passed
                  /\ \A j \in DOMAIN cases : j # i => cases'[j] = cases[j]
                  /\ \A j \in DOMAIN cases :
                         (j # i /\ cases[j].case_span # 0) =>
                             spans'[cases[j].case_span] =
                                 spans[cases[j].case_span]]_vars

\* two test cases were open at once; the first clicked after the second was
\* entered, then the second clicked and failed; the second left first, as
\* failed, then the first, as passed
C28_Witness ==
    /\ Len(cases) = 2 /\ Len(acts) = 2
    /\ acts[1].case = 1 /\ acts[2].case = 2
    /\ cases[2].case_span < acts[1].span
    /\ acts[1].raised = NoExc /\ acts[2].raised = DriverError
    /\ spans[acts[1].span].parent = cases[1].case_span
    /\ spans[acts[2].span].parent = cases[2].case_span
    /\ cases[2].exits = 1 /\ cases[1].exits = 1
    /\ spans[cases[2].case_span].attrs["test.case.result"] = "failed"
    /\ spans[cases[1].case_span].attrs["test.case.result"] = "passed"
    /\ passed = 1 /\ failed = 1 /\ total = 2

\* the fill span of the run that differs from the recorded call acts[k]
\* only in the filled value v
OtherRun(k, v) ==
    LET a == acts[k].args
        s == spans[acts[k].span]
        err == page_fill(a.outcome, a.selector, v)
        s1 == set_attribute(action_span(s.parent, "fill", a.selector, NoAttrs),
                            "test.action.page_url",
                            s.attrs["test.action.page_url"])
    IN  [span |-> span_exit(fill_body(s1, a.selector, v, a.sensitive, err), err),
         raised |-> err]

\* C29: for a fill of a sensitive field (the flag is true or the selector
\* matches a sensitive pattern) the run with any other value records the
\* same fill span (name, attributes, status, description, exception) and
\* hands the same failure, if any, to the test case, whose span and log
\* record are written from it.
C29_ValueIndependent ==
    \A k \in DOMAIN acts :
        (acts[k].op = "fill"
            /\ (acts[k].args.sensitive
                   \/ is_sensitive_selector(acts[k].args.selector))) =>
            \A v \in FillValues :
                /\ OtherRun(k, v).span = spans[acts[k].span]
                /\ OtherRun(k, v).raised = acts[k].raised

====
